---- MODULE Spec2Model ----
(***************************************************************************)
(* State reconciliation of the meross_lan entity classes:                  *)
(*   custom_components/meross_lan/meross_entity.py  (MerossEntity,         *)
(*       MerossNumericEntity, MerossBinaryEntity, MerossToggle)            *)
(*   custom_components/meross_lan/climate.py        (MtsClimate)           *)
(*   custom_components/meross_lan/devices/diffuser.py (diffuser sensors    *)
(*       handler, MLDiffuserLight)                                         *)
(*                                                                         *)
(* Python values are encoded as tuples so that any two of them compare:    *)
(*   None  is <<>>, an int n is <<n>> (Num), a non integral quotient n/d is *)
(*   <<n, d>> in lowest terms, a string s is <<s>>.                        *)
(* Python's == on numbers (1 == 1.0 == True) is equality of these tuples.  *)
(***************************************************************************)
EXTENDS Integers, Sequences, FiniteSets, Bags, TLC

VARIABLES
    ent,        \* the entity under reconciliation (one of the meross_entity classes)
    requests,   \* coroutines suspended in `await manager.async_request_ack(...)`
    call,       \* the last handler that ran on `ent` and its argument
    climate,    \* an MtsClimate entity with its companion sensors
    climcall,   \* the last handler that ran on `climate`
    entities,   \* device.entities of a diffuser: id -> sensor entity
    handled,    \* outcome of the last diffuser sensor payload handled
    device,     \* the diffuser: its abilities and what digest_init_diffuser registered
    host,       \* what async_write_ha_state last handed to the host for `ent`
    wire,       \* the device behind a toggle and the messages between the two
    manager,    \* an EntityManager: its entity registry and namespace handlers
    mgrcall,    \* the last operation that ran on `manager` and its outcome
    digest,     \* descriptor.digest of an emulated thermostat
    emucall     \* the last SET the emulator handled and its reply

vars == <<ent, requests, call, climate, climcall, entities, handled, device, host, wire, manager, mgrcall, digest, emucall>>

----------------------------------------------------------------------------
(* Python values *)

None == <<>>

Num(n) == <<n>>

Txt(s) == <<s>>

RECURSIVE GCD(_, _)
GCD(a, b) == IF b = 0 THEN a ELSE GCD(b, a % b)

\* the number n/d (n >= 0, d > 0) in its normal form
Rat(n, d) ==
    LET g == GCD(n, d)
    IN  IF d \div g = 1 THEN <<n \div g>> ELSE <<n \div g, d \div g>>

\* Python's true division  a / s  of a number a by a positive int s
TrueDiv(a, s) == Rat(a[1], (IF Len(a) = 2 THEN a[2] ELSE 1) * s)

\* Python truthiness of None / a number
Truthy(v) == v # None /\ v # Num(0)

----------------------------------------------------------------------------
(* Python dict and list helpers; a dict is a function on its keys *)

EmptyDict == <<>>

DictSet(d, k, v) == [x \in (DOMAIN d) \cup {k} |-> IF x = k THEN v ELSE d[x]]

DictGet(d, k, default) == IF k \in DOMAIN d THEN d[k] ELSE default

\* list[i] with Python's negative indices; FALSE when it raises IndexError
ListHas(list, i) == i \in (0 - Len(list)) .. (Len(list) - 1)

ListGet(list, i) == IF i >= 0 THEN list[i + 1] ELSE list[Len(list) + i + 1]

\* list.index(x) for an x that is in the list
ListIndex(list, x) == CHOOSE i \in 0 .. (Len(list) - 1) : list[i + 1] = x

----------------------------------------------------------------------------
(* Bounds and input sets *)

\* number of commands that may be awaiting their acknowledgment at once
MaxInFlight == 1

\* values of `state` handed to MerossEntity.update_state
StateValues == {Txt("idle"), Txt("heating")}

\* raw device values handed to update_device_value
DeviceValues == {Num(0), Num(41), Num(42)}

\* values handed to update_native_value
NativeValues == {Rat(42, 10), Num(5)}

\* device_scale of the numeric classes (the base class default and a scaled sensor)
Scales == {1, 10}

\* on/off values carried by payloads ("onoff" may be missing: payload.get -> None)
OnOffValues == {None, Num(0), Num(1)}

----------------------------------------------------------------------------
(* MerossEntity *)

\* MerossEntity._attr_available, the class-level default
_attr_available == FALSE

\* fault variant of MerossEntity.__init__: an initial state does not make the
\* entity available
MerossEntity__init__ignores_state(cls, state, available) ==
    [ cls             |-> cls,
      available       |-> (available \/ _attr_available),
      _attr_state     |-> state,
      _hass_connected |-> FALSE,
      flushed         |-> 0,
      written         |-> 0 ]

\* fields every entity carries; `flushed` and `written` record, for the handler
\* that ran last, the calls of flush_state and of async_write_ha_state
MerossEntity__init__(cls, state, available) ==
    [ cls             |-> cls,
      available       |-> (available \/ _attr_available \/ state # None),
      _attr_state     |-> state,
      _hass_connected |-> FALSE,
      flushed         |-> 0,
      written         |-> 0 ]

\* a handler starts: the recorders of flushes (and of the exceptions a light
\* logs) are reset
Enter(e) ==
    IF "logged" \in DOMAIN e
    THEN [e EXCEPT !.flushed = 0, !.written = 0, !.logged = 0]
    ELSE [e EXCEPT !.flushed = 0, !.written = 0]

MerossEntity_flush_state(e) ==
    IF e._hass_connected
    THEN [e EXCEPT !.flushed = @ + 1, !.written = @ + 1]
    ELSE [e EXCEPT !.flushed = @ + 1]

\* MtsClimate.MTS_MODE_TO_PRESET_MAP, set by the thermostat classes
MTS_MODE_TO_PRESET_MAP ==
    [ mode \in {Num(0), Num(1)} |-> IF mode = Num(0) THEN Txt("custom") ELSE Txt("comfort") ]

\* fault variant of MtsClimate.flush_state: preset_mode is not derived
MtsClimate_flush_state_keeps_preset(e) ==
    [MerossEntity_flush_state(e) EXCEPT !.schedule_flushed = @ + 1]

\* MtsClimate.flush_state; schedule_flushed records schedule.flush_state()
MtsClimate_flush_state(e) ==
    [MerossEntity_flush_state(
        [e EXCEPT !.preset_mode = DictGet(MTS_MODE_TO_PRESET_MAP, e._mts_mode, None)])
     EXCEPT !.schedule_flushed = @ + 1]

\* self.flush_state(): method resolution
flush_state(e) ==
    IF e.cls = "MtsClimate" THEN MtsClimate_flush_state(e) ELSE MerossEntity_flush_state(e)

\* the cached state, is_on, device_value and native_value an entity has
ValueFields(e) ==
    (DOMAIN e) \cap {"_attr_state", "device_value", "native_value", "is_on"}

\* what the host reads from the entity in async_write_ha_state
HaState(e) ==
    [ available |-> e.available, value |-> [f \in ValueFields(e) |-> e[f]] ]

\* the host's view after a handler that left the entity as e: the entity as
\* flush_state found it when it wrote, the previous view when it did not
async_write_ha_state(h, e) == IF e.written > 0 THEN HaState(e) ELSE h

set_available(e) == [e EXCEPT !.available = TRUE]

\* fault variant of set_unavailable: flushes whether or not the entity was available
set_unavailable_level_triggered(e) ==
    flush_state([e EXCEPT !._attr_state = None, !.available = FALSE])

MerossEntity_set_unavailable(e) ==
    LET e1 == [e EXCEPT !._attr_state = None]
    IN  IF e1.available
        THEN flush_state([e1 EXCEPT !.available = FALSE])
        ELSE e1

\* fault variant of update_state: no comparison with the cached state
update_state_always_flushes(e, state) ==
    flush_state([e EXCEPT !._attr_state = state])

update_state(e, state) ==
    IF e._attr_state # state
    THEN flush_state([e EXCEPT !._attr_state = state])
    ELSE e

----------------------------------------------------------------------------
(* MerossNumericEntity *)

MerossNumericEntity__init__(device_scale, device_value) ==
    [ f \in {"device_scale", "device_value", "native_value"} |->
        CASE f = "device_scale" -> device_scale
          [] f = "device_value" -> device_value
          [] f = "native_value" ->
                IF device_value = None THEN None
                ELSE TrueDiv(device_value, device_scale) ]
    @@ MerossEntity__init__("MerossNumericEntity", None, device_value # None)

\* fault variant of set_unavailable: native_value is not cleared
MerossNumericEntity_set_unavailable_keeps_native(e) ==
    MerossEntity_set_unavailable([e EXCEPT !.device_value = None])

MerossNumericEntity_set_unavailable(e) ==
    MerossEntity_set_unavailable(
        [e EXCEPT !.device_value = None, !.native_value = None])

\* fault variant of update_device_value: device_scale is not applied
update_device_value_unscaled(e, device_value) ==
    IF e.device_value # device_value
    THEN flush_state(
            [e EXCEPT !.device_value = device_value,
                      !.native_value = device_value])
    ELSE e

update_device_value(e, device_value) ==
    IF e.device_value # device_value
    THEN flush_state(
            [e EXCEPT !.device_value = device_value,
                      !.native_value = TrueDiv(device_value, e.device_scale)])
    ELSE e

update_native_value(e, native_value) ==
    IF e.native_value # native_value
    THEN flush_state([e EXCEPT !.native_value = native_value])
    ELSE e

----------------------------------------------------------------------------
(* MerossBinaryEntity, MerossToggle *)

MerossBinaryEntity__init__(cls, onoff) ==
    [ f \in {"is_on"} |-> onoff ]
    @@ MerossEntity__init__(cls, None, onoff # None)

\* fault variant of MerossBinaryEntity.set_unavailable: is_on is not cleared
MerossBinaryEntity_set_unavailable_keeps_is_on(e) ==
    MerossEntity_set_unavailable(e)

MerossBinaryEntity_set_unavailable(e) ==
    MerossEntity_set_unavailable([e EXCEPT !.is_on = None])

\* fault variant of update_onoff: availability follows the value
update_onoff_sets_available(e, onoff) ==
    IF e.is_on # onoff
    THEN flush_state(
            [e EXCEPT !.is_on = onoff, !.available = (onoff # None)])
    ELSE e

\* fault variant of update_onoff: no comparison with the cached value
update_onoff_always_flushes(e, onoff) ==
    flush_state([e EXCEPT !.is_on = onoff])

update_onoff(e, onoff) ==
    IF e.is_on # onoff
    THEN flush_state([e EXCEPT !.is_on = onoff])
    ELSE e

\* MerossToggle.async_request_onoff after its await: `ack` is what
\* manager.async_request_ack returned
\* fault variant of async_request_onoff: the acknowledgment is ignored
async_request_onoff_optimistic(e, onoff, ack) == update_onoff(e, onoff)

\* fault variant of async_request_onoff: a disabled entity is not updated
async_request_onoff_connected_only(e, onoff, ack) ==
    IF ack /\ e._hass_connected THEN update_onoff(e, onoff) ELSE e

async_request_onoff_resume(e, onoff, ack) ==
    IF ack THEN update_onoff(e, onoff) ELSE e

\* fault variant of _parse_toggle: only a truthy onoff is applied
_parse_toggle_on_only(e, onoff) ==
    IF Truthy(onoff) THEN update_onoff(e, onoff) ELSE e

\* MerossToggle._parse_toggle / _parse_togglex: payload.get(key_onoff)
_parse_toggle(e, onoff) == update_onoff(e, onoff)

----------------------------------------------------------------------------
(* MLDiffuserLight (devices/diffuser.py) over MLLightBase (light.py) *)

\* merossclient.const
DIFFUSER_LIGHT_MODE_COLOR == 1

DIFFUSER_LIGHT_MODE_LIST == <<"Rainbow", "Color", "Temperature">>

\* light._rgb_to_int of an (r, g, b) tuple
_rgb_to_int(rgb) == rgb[1] * 65536 + rgb[2] * 256 + rgb[3]

\* light._sat_1_100
_sat_1_100(value) == IF value > 100 THEN 100 ELSE IF value < 1 THEN 1 ELSE value

\* MLLightBase.__init__: no light payload cached yet; `logged` records the
\* calls of log_exception of the handler that ran last
MLLightBase__init__(cls) ==
    [ _light |-> EmptyDict, effect |-> None, logged |-> 0 ]
    @@ MerossBinaryEntity__init__(cls, None)

\* fault variant of _inherited_parse_light: the except clause leaves effect alone
_inherited_parse_light_keeps_effect(e, payload) ==
    IF "mode" \in DOMAIN payload
    THEN LET mode == payload["mode"]
         IN  IF mode = Num(DIFFUSER_LIGHT_MODE_COLOR)
             THEN [e EXCEPT !.effect = None]
             ELSE IF Len(mode) = 1 /\ ListHas(DIFFUSER_LIGHT_MODE_LIST, mode[1])
                  THEN [e EXCEPT !.effect = Txt(ListGet(DIFFUSER_LIGHT_MODE_LIST, mode[1]))]
                  ELSE [e EXCEPT !.logged = @ + 1]
    ELSE e

_inherited_parse_light(e, payload) ==
    IF "mode" \in DOMAIN payload
    THEN LET mode == payload["mode"]
         IN  IF mode = Num(DIFFUSER_LIGHT_MODE_COLOR)
             THEN [e EXCEPT !.effect = None]
             ELSE IF Len(mode) = 1 /\ ListHas(DIFFUSER_LIGHT_MODE_LIST, mode[1])
                  THEN [e EXCEPT !.effect = Txt(ListGet(DIFFUSER_LIGHT_MODE_LIST, mode[1]))]
                  ELSE \* except Exception: log_exception(...)
                       [e EXCEPT !.effect = None, !.logged = @ + 1]
    ELSE e

\* MLLightBase._parse_light: compare-and-set of the cached light payload
_parse_light(e, payload) ==
    IF e._light # payload
    THEN flush_state(
            _inherited_parse_light(
                [e EXCEPT !._light = payload,
                          !.is_on = DictGet(payload, "onoff", None)],
                payload))
    ELSE e

\* fault variant of async_turn_on: the requested brightness is not saturated
async_turn_on_payload_unsaturated(e, kwargs) ==
    LET l1 == DictSet(e._light, "onoff", Num(1))
        l2 == IF "rgb_color" \in DOMAIN kwargs
              THEN DictSet(DictSet(l1, "rgb", Num(_rgb_to_int(kwargs["rgb_color"]))),
                           "mode", Num(DIFFUSER_LIGHT_MODE_COLOR))
              ELSE l1
        l3 == IF "brightness" \in DOMAIN kwargs
              THEN DictSet(l2, "luminance", Num((kwargs["brightness"] * 100) \div 255))
              ELSE IF ~ Truthy(DictGet(l2, "luminance", Num(0)))
                   THEN DictSet(l2, "luminance", Num(100))
                   ELSE l2
    IN  IF "effect" \in DOMAIN kwargs
        THEN DictSet(l3, "mode", Num(ListIndex(DIFFUSER_LIGHT_MODE_LIST, kwargs["effect"])))
        ELSE l3

\* fault variant of async_turn_on: the color is sent without the color mode
async_turn_on_payload_keeps_mode(e, kwargs) ==
    LET l1 == DictSet(e._light, "onoff", Num(1))
        l2 == IF "rgb_color" \in DOMAIN kwargs
              THEN DictSet(l1, "rgb", Num(_rgb_to_int(kwargs["rgb_color"])))
              ELSE l1
        l3 == IF "brightness" \in DOMAIN kwargs
              THEN DictSet(l2, "luminance",
                           Num(_sat_1_100((kwargs["brightness"] * 100) \div 255)))
              ELSE IF ~ Truthy(DictGet(l2, "luminance", Num(0)))
                   THEN DictSet(l2, "luminance", Num(100))
                   ELSE l2
    IN  IF "effect" \in DOMAIN kwargs
        THEN DictSet(l3, "mode", Num(ListIndex(DIFFUSER_LIGHT_MODE_LIST, kwargs["effect"])))
        ELSE l3

\* MLDiffuserLight.async_turn_on with kwargs, up to its await: the payload sent
async_turn_on_payload(e, kwargs) ==
    LET l1 == DictSet(e._light, "onoff", Num(1))
        l2 == IF "rgb_color" \in DOMAIN kwargs
              THEN DictSet(DictSet(l1, "rgb", Num(_rgb_to_int(kwargs["rgb_color"]))),
                           "mode", Num(DIFFUSER_LIGHT_MODE_COLOR))
              ELSE l1
        l3 == IF "brightness" \in DOMAIN kwargs
              THEN DictSet(l2, "luminance",
                           Num(_sat_1_100((kwargs["brightness"] * 100) \div 255)))
              ELSE IF ~ Truthy(DictGet(l2, "luminance", Num(0)))
                   THEN DictSet(l2, "luminance", Num(100))
                   ELSE l2
    IN  IF "effect" \in DOMAIN kwargs
        THEN DictSet(l3, "mode", Num(ListIndex(DIFFUSER_LIGHT_MODE_LIST, kwargs["effect"])))
        ELSE l3

\* MLDiffuserLight.async_turn_on after its await
async_turn_on_resume(e, light, ack) ==
    IF ack THEN _parse_light(e, light) ELSE e

\* method resolution of set_unavailable
set_unavailable(e) ==
    CASE e.cls = "MerossEntity"        -> MerossEntity_set_unavailable(e)
      [] e.cls \in {"MerossNumericEntity", "MLHumiditySensor", "MLTemperatureSensor"}
                                       -> MerossNumericEntity_set_unavailable(e)
      [] e.cls = "MerossToggle"        -> MerossBinaryEntity_set_unavailable(e)
      [] e.cls = "MLDiffuserLight"     -> MerossBinaryEntity_set_unavailable(e)

----------------------------------------------------------------------------
(* Entity under reconciliation: construction, inputs, handlers *)

\* light payloads pushed by the device (digest / PUSH of Diffuser.Light)
LightPayloads ==
    { [onoff |-> Num(0), mode |-> Num(0), luminance |-> Num(100), rgb |-> Num(4129023)],
      [onoff |-> Num(1), mode |-> Num(3), luminance |-> Num(0), rgb |-> Num(4129023)],
      [onoff |-> Num(1), rgb |-> Num(4129023)] }

\* service data of light.turn_on
TurnOnKwargs ==
    { [rgb_color |-> <<255, 0, 0>>],
      [brightness |-> 0],
      [brightness |-> 1],
      [brightness |-> 128],
      [brightness |-> 255, effect |-> "Temperature"] }

\* the constructor calls: the initial value and the `available` flag handed to
\* the class, and the entity constructed
EntConstructions ==
    { [ value |-> s, available |-> a, ent |-> MerossEntity__init__("MerossEntity", s, a) ] :
        s \in StateValues \cup {None}, a \in BOOLEAN }
    \cup { [ value |-> dv, available |-> FALSE, ent |-> MerossNumericEntity__init__(sc, dv) ] :
        sc \in Scales, dv \in DeviceValues \cup {None} }
    \cup { [ value |-> onoff, available |-> FALSE,
             ent |-> MerossBinaryEntity__init__("MerossToggle", onoff) ] :
        onoff \in OnOffValues }
    \cup { [ value |-> None, available |-> FALSE, ent |-> MLLightBase__init__("MLDiffuserLight") ] }

EntInit == { c.ent : c \in EntConstructions }

\* the handler that ran, its argument and the entity it found
Called(op, arg) == call' = [op |-> op, arg |-> arg, pre |-> Enter(ent)]

EntFrame == UNCHANGED <<climate, climcall, entities, handled, device, host, wire, manager, mgrcall, digest, emucall>>

\* Entity.async_added_to_hass
AddedToHass ==
    /\ ~ ent._hass_connected
    /\ ent' = [Enter(ent) EXCEPT !._hass_connected = TRUE]
    /\ Called("async_added_to_hass", None)
    /\ UNCHANGED requests /\ EntFrame

\* Entity.async_will_remove_from_hass
WillRemoveFromHass ==
    /\ ent._hass_connected
    /\ ent' = [Enter(ent) EXCEPT !._hass_connected = FALSE]
    /\ Called("async_will_remove_from_hass", None)
    /\ UNCHANGED requests /\ EntFrame

SetAvailable ==
    /\ ent' = set_available(Enter(ent))
    /\ Called("set_available", None)
    /\ UNCHANGED requests /\ EntFrame

SetUnavailable ==
    /\ ent' = set_unavailable(Enter(ent))
    /\ Called("set_unavailable", None)
    /\ UNCHANGED requests /\ EntFrame

UpdateState(state) ==
    /\ ent.cls = "MerossEntity"
    /\ ent' = update_state(Enter(ent), state)
    /\ Called("update_state", state)
    /\ UNCHANGED requests /\ EntFrame

UpdateDeviceValue(device_value) ==
    /\ ent.cls = "MerossNumericEntity"
    /\ ent' = update_device_value(Enter(ent), device_value)
    /\ Called("update_device_value", device_value)
    /\ UNCHANGED requests /\ EntFrame

UpdateNativeValue(native_value) ==
    /\ ent.cls = "MerossNumericEntity"
    /\ ent' = update_native_value(Enter(ent), native_value)
    /\ Called("update_native_value", native_value)
    /\ UNCHANGED requests /\ EntFrame

\* an inbound Toggle/ToggleX payload item routed to the entity
ParseToggle(onoff) ==
    /\ ent.cls = "MerossToggle"
    /\ ent' = _parse_toggle(Enter(ent), onoff)
    /\ Called("update_onoff", onoff)
    /\ UNCHANGED requests /\ EntFrame

\* an inbound Diffuser.Light payload item routed to the entity
ParseLight(payload) ==
    /\ ent.cls = "MLDiffuserLight"
    /\ ent' = _parse_light(Enter(ent), payload)
    /\ Called("_parse_light", payload)
    /\ UNCHANGED requests /\ EntFrame

\* async_turn_on() / async_turn_off() up to the await in async_request_onoff;
\* MLDiffuserLight.async_turn_on without kwargs takes the same path (the light
\* inherits async_request_onoff and update_onoff from MerossToggle)
RequestOnoff(onoff) ==
    /\ ent.cls \in {"MerossToggle", "MLDiffuserLight"}
    /\ BagCardinality(requests) < MaxInFlight
    /\ requests' = requests (+) SetToBag({[kind |-> "onoff", onoff |-> onoff]})
    /\ ent' = Enter(ent)
    /\ Called("async_request_onoff", onoff)
    /\ EntFrame

\* MLDiffuserLight.async_turn_on(**kwargs) up to its await
RequestLight(kwargs) ==
    /\ ent.cls = "MLDiffuserLight"
    /\ BagCardinality(requests) < MaxInFlight
    /\ requests' = requests (+) SetToBag(
            {[ kind |-> "light", light |-> async_turn_on_payload(ent, kwargs),
               kwargs |-> kwargs ]})
    /\ ent' = Enter(ent)
    /\ Called("async_turn_on",
              [kwargs |-> kwargs, light |-> async_turn_on_payload(ent, kwargs)])
    /\ EntFrame

\* manager.async_request_ack returns `ack` to the suspended coroutine r
Resume(r, ack) ==
    /\ r \in BagToSet(requests)
    /\ ent' = IF r.kind = "onoff"
              THEN async_request_onoff_resume(Enter(ent), r.onoff, ack)
              ELSE async_turn_on_resume(Enter(ent), r.light, ack)
    /\ Called(IF ack THEN "ack" ELSE "nack", r)
    /\ requests' = requests (-) SetToBag({r})
    /\ EntFrame

NextEntity ==
    \/ AddedToHass
    \/ WillRemoveFromHass
    \/ SetAvailable
    \/ SetUnavailable
    \/ \E state \in StateValues \cup {None} : UpdateState(state)
    \/ \E dv \in DeviceValues : UpdateDeviceValue(dv)
    \/ \E nv \in NativeValues : UpdateNativeValue(nv)
    \/ \E onoff \in OnOffValues : ParseToggle(onoff)
    \/ \E payload \in LightPayloads : ParseLight(payload)
    \/ \E onoff \in {0, 1} : RequestOnoff(Num(onoff))
    \/ \E kwargs \in TurnOnKwargs : RequestLight(kwargs)
    \/ \E r \in BagToSet(requests), ack \in BOOLEAN : Resume(r, ack)

----------------------------------------------------------------------------
(* The host's view of an entity connected to it *)

HostFrame ==
    UNCHANGED <<requests, climate, climcall, entities, handled, device, wire, manager,
                mgrcall, digest, emucall>>

\* the handler that ran on `ent` wrote the host when its flush_state found the
\* entity connected (every handler flushes after its last assignment)
HostWritten == host' = async_write_ha_state(host, ent')

HostAddedToHass ==
    /\ ~ ent._hass_connected
    /\ ent' = [Enter(ent) EXCEPT !._hass_connected = TRUE]
    /\ Called("async_added_to_hass", None)
    /\ HostWritten /\ HostFrame

HostWillRemoveFromHass ==
    /\ ent._hass_connected
    /\ ent' = [Enter(ent) EXCEPT !._hass_connected = FALSE]
    /\ Called("async_will_remove_from_hass", None)
    /\ HostWritten /\ HostFrame

HostSetAvailable ==
    /\ ent' = set_available(Enter(ent))
    /\ Called("set_available", None)
    /\ HostWritten /\ HostFrame

HostSetUnavailable ==
    /\ ent' = set_unavailable(Enter(ent))
    /\ Called("set_unavailable", None)
    /\ HostWritten /\ HostFrame

HostUpdateState(state) ==
    /\ ent.cls = "MerossEntity"
    /\ ent' = update_state(Enter(ent), state)
    /\ Called("update_state", state)
    /\ HostWritten /\ HostFrame

HostUpdateDeviceValue(device_value) ==
    /\ ent.cls = "MerossNumericEntity"
    /\ ent' = update_device_value(Enter(ent), device_value)
    /\ Called("update_device_value", device_value)
    /\ HostWritten /\ HostFrame

\* an inbound Toggle/ToggleX payload item routed to the entity
HostParseToggle(onoff) ==
    /\ ent.cls = "MerossToggle"
    /\ ent' = _parse_toggle(Enter(ent), onoff)
    /\ Called("update_onoff", onoff)
    /\ HostWritten /\ HostFrame

NextHost ==
    \/ HostAddedToHass
    \/ HostWillRemoveFromHass
    \/ HostSetAvailable
    \/ HostSetUnavailable
    \/ \E state \in StateValues \cup {None} : HostUpdateState(state)
    \/ \E dv \in DeviceValues : HostUpdateDeviceValue(dv)
    \/ \E onoff \in OnOffValues : HostParseToggle(onoff)

----------------------------------------------------------------------------
(* A toggle, its device and the messages travelling between them in order *)

\* number of device messages that may be waiting for the inbound processing path
MaxWire == 2

\* the device as the digest found it and nothing travelling
QuietWire(onoff) == [onoff |-> onoff, tx |-> <<>>, rx |-> <<>>]

WireFrame ==
    UNCHANGED <<climate, climcall, entities, handled, device, host, manager, mgrcall,
                digest, emucall>>

\* async_turn_on() / async_turn_off() up to the await in async_request_onoff: the
\* SET travels to the device; `interleaved` records whether a state payload is
\* processed while the coroutine is suspended
WireRequestOnoff(onoff) ==
    /\ BagCardinality(requests) < MaxInFlight
    /\ requests' = requests (+) SetToBag(
            {[kind |-> "onoff", onoff |-> onoff, interleaved |-> FALSE]})
    /\ wire' = [wire EXCEPT !.tx = Append(@, onoff)]
    /\ ent' = Enter(ent)
    /\ Called("async_request_onoff", onoff)
    /\ WireFrame

\* the device receives the oldest SET: it applies it and acknowledges, or
\* rejects it
DeviceSet(accept) ==
    /\ wire.tx # <<>>
    /\ wire' = [wire EXCEPT
            !.tx    = Tail(@),
            !.onoff = IF accept THEN wire.tx[1] ELSE @,
            !.rx    = Append(@, [ kind  |-> IF accept THEN "ack" ELSE "nack",
                                  onoff |-> wire.tx[1] ])]
    /\ UNCHANGED <<ent, requests, call>>
    /\ WireFrame

\* the device is operated locally and pushes its state
DevicePush(onoff) ==
    /\ Len(wire.rx) < MaxWire
    /\ wire' = [wire EXCEPT !.onoff = onoff,
                            !.rx = Append(@, [kind |-> "push", onoff |-> onoff])]
    /\ UNCHANGED <<ent, requests, call>>
    /\ WireFrame

\* the oldest device message is the reply to a SET: manager.async_request_ack
\* returns to the suspended coroutine
WireDeliverReply ==
    /\ wire.rx # <<>>
    /\ wire.rx[1].kind \in {"ack", "nack"}
    /\ \E r \in BagToSet(requests) :
            /\ r.onoff = wire.rx[1].onoff
            /\ ent' = async_request_onoff_resume(Enter(ent), r.onoff, wire.rx[1].kind = "ack")
            /\ Called(wire.rx[1].kind, r)
            /\ requests' = requests (-) SetToBag({r})
    /\ wire' = [wire EXCEPT !.rx = Tail(@)]
    /\ WireFrame

\* the oldest device message is a state payload: it is routed to the entity
WireDeliverPush ==
    /\ wire.rx # <<>>
    /\ wire.rx[1].kind = "push"
    /\ ent' = _parse_toggle(Enter(ent), wire.rx[1].onoff)
    /\ Called("update_onoff", wire.rx[1].onoff)
    /\ requests' = BagOfAll(LAMBDA r : [r EXCEPT !.interleaved = TRUE], requests)
    /\ wire' = [wire EXCEPT !.rx = Tail(@)]
    /\ WireFrame

NextWire ==
    \/ \E onoff \in {0, 1} : WireRequestOnoff(Num(onoff))
    \/ \E accept \in BOOLEAN : DeviceSet(accept)
    \/ \E onoff \in {0, 1} : DevicePush(Num(onoff))
    \/ WireDeliverReply
    \/ WireDeliverPush

----------------------------------------------------------------------------
(* MtsClimate (climate.py) *)

\* merossclient.const
MTS_TEMP_SCALE == 10

\* mc.SensorModeStateEnum.UNKNOW
UNKNOW == Txt("unknow")

\* the companion sensors the mask asks for (mc.MTSCLIMATE_MASK_SENSOR_...)
Masks == SUBSET {"OUTPUT_POWER_STATE", "MODE_STATE"}

\* sensor.MLModeStateSensor(manager, channel, entitykey = "Mode State")
MLModeStateSensor__init__ ==
    [ f \in {"native_value", "extra_state_attributes"} |->
        IF f = "native_value" THEN None ELSE EmptyDict ]
    @@ MerossEntity__init__("MLModeStateSensor", None, FALSE)

\* sensor.MLModeStateSensor.update_native_and_extra_state_attribut
update_native_and_extra_state_attribut(e, native_value, extra) ==
    IF e.native_value # native_value \/ e.extra_state_attributes # extra
    THEN flush_state([e EXCEPT !.native_value = native_value,
                               !.extra_state_attributes = extra])
    ELSE e

MtsClimate__init__(mtsclimate_mask) ==
    [ f \in {"current_humidity", "current_temperature", "current_output_power_state",
             "current_mode_state", "current_mode_state_attr", "hvac_action",
             "hvac_mode", "preset_mode", "target_temperature", "_mts_active",
             "_mts_mode", "_mts_onoff"} |-> None ]
    @@ [ _mts_payload    |-> EmptyDict,
         schedule_flushed |-> 0,
         sensor_current_temperature |->
            <<[MerossNumericEntity__init__(1, None) EXCEPT !.cls = "MLTemperatureSensor"]>>,
         sensor_output_power_state |->
            IF "OUTPUT_POWER_STATE" \in mtsclimate_mask
            THEN <<MerossBinaryEntity__init__("MLOutputPowerState", None)>>
            ELSE None,
         sensor_mode_state |->
            IF "MODE_STATE" \in mtsclimate_mask
            THEN <<MLModeStateSensor__init__>>
            ELSE None ]
    @@ MerossEntity__init__("MtsClimate", None, FALSE)

\* a handler of the climate starts: the flush recorders are reset
ClimEnter(c) ==
    [Enter(c) EXCEPT
        !.schedule_flushed = 0,
        !.sensor_current_temperature = <<Enter(@[1])>>,
        !.sensor_output_power_state = IF @ = None THEN None ELSE <<Enter(@[1])>>,
        !.sensor_mode_state = IF @ = None THEN None ELSE <<Enter(@[1])>>]

\* the _update_* helpers return [e: the entity afterwards, changed: the bool returned]
_update_current_temperature(e, current_temperature) ==
    IF e.current_temperature # current_temperature
    THEN [ e |-> [e EXCEPT !.current_temperature = current_temperature,
                           !.sensor_current_temperature =
                                <<update_native_value(@[1], current_temperature)>>],
           changed |-> TRUE ]
    ELSE [ e |-> e, changed |-> FALSE ]

_update_output_power_state(e, current_output_power_state) ==
    IF e.sensor_output_power_state # None
       /\ e.current_output_power_state # current_output_power_state
    THEN [ e |-> [e EXCEPT !.current_output_power_state = current_output_power_state,
                           !.sensor_output_power_state =
                                <<update_onoff(@[1], current_output_power_state)>>],
           changed |-> TRUE ]
    ELSE [ e |-> e, changed |-> FALSE ]

\* fault variant of _update_mode_state: the extra attributes are not compared
_update_mode_state_ignores_attr(e, current_mode_state, extra_attributs) ==
    IF e.sensor_mode_state # None
       /\ e.current_mode_state # current_mode_state
    THEN [ e |-> [e EXCEPT !.current_mode_state = current_mode_state,
                           !.current_mode_state_attr = extra_attributs,
                           !.sensor_mode_state =
                                <<update_native_and_extra_state_attribut(
                                    @[1], current_mode_state, extra_attributs)>>],
           changed |-> TRUE ]
    ELSE [ e |-> e, changed |-> FALSE ]

_update_mode_state(e, current_mode_state, extra_attributs) ==
    IF e.sensor_mode_state # None
       /\ (e.current_mode_state # current_mode_state
           \/ e.current_mode_state_attr # extra_attributs)
    THEN [ e |-> [e EXCEPT !.current_mode_state = current_mode_state,
                           !.current_mode_state_attr = extra_attributs,
                           !.sensor_mode_state =
                                <<update_native_and_extra_state_attribut(
                                    @[1], current_mode_state, extra_attributs)>>],
           changed |-> TRUE ]
    ELSE [ e |-> e, changed |-> FALSE ]

MtsClimate_set_unavailable(e) ==
    LET e1 == [e EXCEPT !._mts_active = None, !._mts_mode = None, !._mts_onoff = None,
                        !._mts_payload = EmptyDict, !.current_humidity = None,
                        !.current_temperature = None,
                        !.current_output_power_state = None]
        e2 == _update_mode_state(e1, UNKNOW, None).e
    IN  MerossEntity_set_unavailable(
            [e2 EXCEPT !.preset_mode = None, !.hvac_action = None, !.hvac_mode = None])

\* the payload parser of the thermostat classes (mts100, mts200, ...): caches the
\* raw fields, derives the host attributes and flushes
Mts_parse(e, payload) ==
    IF e._mts_payload = payload THEN e
    ELSE
    LET e1 == [e EXCEPT !._mts_payload = payload,
                        !._mts_mode = DictGet(payload, "mode", @),
                        !._mts_onoff = DictGet(payload, "onoff", @),
                        !._mts_active = DictGet(payload, "state", @)]
        e2 == IF "currentTemp" \in DOMAIN payload
              THEN _update_current_temperature(
                        e1, TrueDiv(payload["currentTemp"], MTS_TEMP_SCALE)).e
              ELSE e1
        e3 == IF "targetTemp" \in DOMAIN payload
              THEN [e2 EXCEPT !.target_temperature =
                        TrueDiv(payload["targetTemp"], MTS_TEMP_SCALE)]
              ELSE e2
        e4 == IF "humidity" \in DOMAIN payload
              THEN [e3 EXCEPT !.current_humidity = payload["humidity"]]
              ELSE e3
        e5 == IF Truthy(e4._mts_onoff)
              THEN [e4 EXCEPT !.hvac_mode = Txt("heat"),
                              !.hvac_action = IF Truthy(e4._mts_active)
                                              THEN Txt("heating") ELSE Txt("idle")]
              ELSE [e4 EXCEPT !.hvac_mode = Txt("off"), !.hvac_action = Txt("off")]
    IN  flush_state(e5)

\* thermostat payloads pushed by the device
ThermostatPayloads ==
    { [mode |-> Num(1), onoff |-> Num(1), state |-> Num(1),
       currentTemp |-> Num(200), targetTemp |-> Num(215)],
      [mode |-> Num(0), onoff |-> Num(1), state |-> Num(0),
       currentTemp |-> Num(215), targetTemp |-> Num(210), humidity |-> Num(40)],
      [mode |-> Num(9), onoff |-> Num(0), state |-> Num(0),
       currentTemp |-> Num(200), targetTemp |-> Num(50)],
      [mode |-> Num(9), humidity |-> Num(55)] }

\* room temperatures reported apart from the thermostat payload
CurrentTemperatures == {Rat(215, 10)}

ModeStates == {UNKNOW, Txt("heating")}

ModeStateAttrs == {None, [power |-> Num(1)]}

ClimCalled(op, arg) == climcall' = [op |-> op, arg |-> arg, pre |-> ClimEnter(climate)]

ClimFrame == UNCHANGED <<ent, requests, call, entities, handled, device, host, wire, manager, mgrcall, digest, emucall>>

ClimAddedToHass ==
    /\ ~ climate._hass_connected
    /\ climate' = [ClimEnter(climate) EXCEPT !._hass_connected = TRUE]
    /\ ClimCalled("async_added_to_hass", None)
    /\ ClimFrame

ClimWillRemoveFromHass ==
    /\ climate._hass_connected
    /\ climate' = [ClimEnter(climate) EXCEPT !._hass_connected = FALSE]
    /\ ClimCalled("async_will_remove_from_hass", None)
    /\ ClimFrame

ClimSetAvailable ==
    /\ climate' = set_available(ClimEnter(climate))
    /\ ClimCalled("set_available", None)
    /\ ClimFrame

ClimSetUnavailable ==
    /\ climate' = MtsClimate_set_unavailable(ClimEnter(climate))
    /\ ClimCalled("set_unavailable", None)
    /\ ClimFrame

\* an inbound thermostat payload item routed to the climate entity
ClimParse(payload) ==
    /\ climate' = Mts_parse(ClimEnter(climate), payload)
    /\ ClimCalled("_parse", payload)
    /\ ClimFrame

\* a helper that ran, its argument, the entity it found and the bool it returned
ClimReturned(op, arg, changed) ==
    climcall' = [op |-> op, arg |-> arg, pre |-> ClimEnter(climate), changed |-> changed]

\* an inbound sensor payload: the helper, then a flush when it reports a change
ClimUpdateCurrentTemperature(value) ==
    /\ LET r == _update_current_temperature(ClimEnter(climate), value)
       IN  /\ climate' = IF r.changed THEN flush_state(r.e) ELSE r.e
           /\ ClimReturned("_update_current_temperature", value, r.changed)
    /\ ClimFrame

ClimUpdateOutputPowerState(value) ==
    /\ LET r == _update_output_power_state(ClimEnter(climate), value)
       IN  /\ climate' = IF r.changed THEN flush_state(r.e) ELSE r.e
           /\ ClimReturned("_update_output_power_state", value, r.changed)
    /\ ClimFrame

ClimUpdateModeState(state, attr) ==
    /\ LET r == _update_mode_state(ClimEnter(climate), state, attr)
       IN  /\ climate' = IF r.changed THEN flush_state(r.e) ELSE r.e
           /\ ClimReturned("_update_mode_state", <<state, attr>>, r.changed)
    /\ ClimFrame

NextClimate ==
    \/ ClimAddedToHass
    \/ ClimWillRemoveFromHass
    \/ ClimSetAvailable
    \/ ClimSetUnavailable
    \/ \E payload \in ThermostatPayloads : ClimParse(payload)
    \/ \E value \in CurrentTemperatures : ClimUpdateCurrentTemperature(value)
    \/ \E value \in {Num(0), Num(1)} : ClimUpdateOutputPowerState(value)
    \/ \E state \in ModeStates, attr \in ModeStateAttrs : ClimUpdateModeState(state, attr)

----------------------------------------------------------------------------
(* Diffuser sensors (devices/diffuser.py) *)

\* mc.NS_APPLIANCE_CONTROL_DIFFUSER_LIGHT, _SPRAY, _SENSOR
NS_APPLIANCE_CONTROL_DIFFUSER_LIGHT == "Appliance.Control.Diffuser.Light"

NS_APPLIANCE_CONTROL_DIFFUSER_SPRAY == "Appliance.Control.Diffuser.Spray"

NS_APPLIANCE_CONTROL_DIFFUSER_SENSOR == "Appliance.Control.Diffuser.Sensor"

\* device.descriptor.ability of a diffuser: the sensor namespace is optional
Abilities ==
    { {NS_APPLIANCE_CONTROL_DIFFUSER_LIGHT, NS_APPLIANCE_CONTROL_DIFFUSER_SPRAY},
      {NS_APPLIANCE_CONTROL_DIFFUSER_LIGHT, NS_APPLIANCE_CONTROL_DIFFUSER_SPRAY,
       NS_APPLIANCE_CONTROL_DIFFUSER_SENSOR} }

\* PollingStrategy(device, namespace, handler=...): the handler is registered
\* with the device for the namespace; the count is that of the registrations
PollingStrategy__init__(dev, namespace) ==
    [dev EXCEPT !.polling_strategies = DictSet(@, namespace, DictGet(@, namespace, 0) + 1)]

\* the device digest_init_diffuser starts from and the two NamespaceHandler it
\* always creates
DiffuserDevice(ability) ==
    [ ability            |-> ability,
      namespace_handlers |-> {NS_APPLIANCE_CONTROL_DIFFUSER_LIGHT,
                              NS_APPLIANCE_CONTROL_DIFFUSER_SPRAY},
      polling_strategies |-> EmptyDict,
      log                |-> None ]

\* fault variant of digest_init_diffuser: the ability set is not consulted
digest_init_diffuser_always_polls(ability) ==
    PollingStrategy__init__(DiffuserDevice(ability), NS_APPLIANCE_CONTROL_DIFFUSER_SENSOR)

digest_init_diffuser(ability) ==
    IF NS_APPLIANCE_CONTROL_DIFFUSER_SENSOR \in ability
    THEN PollingStrategy__init__(DiffuserDevice(ability),
                                 NS_APPLIANCE_CONTROL_DIFFUSER_SENSOR)
    ELSE DiffuserDevice(ability)

\* DIFFUSER_SENSOR_CLASS_MAP
DIFFUSER_SENSOR_CLASS_MAP ==
    [ key \in {"humidity", "temperature"} |->
        IF key = "humidity" THEN "MLHumiditySensor" ELSE "MLTemperatureSensor" ]

\* DIFFUSER_SENSOR_CLASS_MAP[key](device, None, device_value=...): the sensor
\* classes (sensor.py) register under their entitykey, which is the payload key,
\* and keep the device_scale of MerossNumericEntity
DiffuserSensor__init__(key, device_value) ==
    [MerossNumericEntity__init__(1, device_value)
        EXCEPT !.cls = DIFFUSER_SENSOR_CLASS_MAP[key]]

\* payload[key][mc.KEY_VALUE] / 10 : the value, or the exception it raises
ItemValue(item) ==
    IF "value" \notin DOMAIN item THEN [raised |-> Txt("KeyError")]
    ELSE IF item["value"] = None THEN [raised |-> Txt("TypeError")]
    ELSE [raised |-> None, value |-> TrueDiv(item["value"], 10)]

\* one turn of the loop `for key in (mc.KEY_HUMIDITY, mc.KEY_TEMPERATURE)`;
\* st.raised is the exception that left the handler, st.processed the keys whose
\* item was applied
HandleKey(st, payload, key) ==
    IF st.raised # None \/ key \notin DOMAIN payload THEN st
    ELSE
    LET v == ItemValue(payload[key])
    IN  IF key \in DOMAIN st.entities /\ v.raised = None
        THEN \* try: entities[key].update_native_value(...)
             [st EXCEPT !.entities[key] = update_native_value(@, v.value),
                        !.processed = @ \cup {key}]
        ELSE IF key \in DOMAIN st.entities \/ v.raised = Txt("TypeError")
        THEN \* the argument raised: a TypeError is not caught, a KeyError is
             \* caught and raised again by the argument of the constructor
             [st EXCEPT !.raised = v.raised]
        ELSE \* except KeyError (no entities[key]): the constructor call
             IF v.raised # None
             THEN [st EXCEPT !.raised = v.raised]
             ELSE [st EXCEPT
                    !.entities = DictSet(@, key, DiffuserSensor__init__(key, v.value)),
                    !.processed = @ \cup {key},
                    !.created = @ \cup {key}]

_handle_Appliance_Control_Diffuser_Sensor(ents, payload) ==
    LET st0 == [ entities  |-> [k \in DOMAIN ents |-> Enter(ents[k])],
                 raised    |-> None,
                 processed |-> {},
                 created   |-> {} ]
    IN  HandleKey(HandleKey(st0, payload, "humidity"), payload, "temperature")

\* items of a Diffuser.Sensor payload: well formed, without "value", null "value"
SensorItems ==
    { [value |-> Num(400)], [value |-> Num(455)], EmptyDict, [value |-> None] }

SensorPayloads ==
    { [humidity |-> h, temperature |-> t] : h \in SensorItems, t \in SensorItems }
    \cup { [humidity |-> h] : h \in SensorItems }
    \cup { [temperature |-> t] : t \in SensorItems }

DiffFrame ==
    UNCHANGED <<ent, requests, call, climate, climcall, host, wire, manager, mgrcall,
                digest, emucall>>

\* an inbound Appliance.Control.Diffuser.Sensor payload on a device without a
\* handler for the namespace: the default handler only logs
HandleUndefined(payload) ==
    /\ NS_APPLIANCE_CONTROL_DIFFUSER_SENSOR \notin DOMAIN device.polling_strategies
    /\ device' = [device EXCEPT !.log = Txt("Handler undefined")]
    /\ UNCHANGED <<entities, handled>>
    /\ DiffFrame

\* an inbound Appliance.Control.Diffuser.Sensor payload
HandleDiffuserSensor(payload) ==
    /\ NS_APPLIANCE_CONTROL_DIFFUSER_SENSOR \in DOMAIN device.polling_strategies
    /\ UNCHANGED device
    /\ LET st == _handle_Appliance_Control_Diffuser_Sensor(entities, payload)
       IN  /\ entities' = st.entities
           /\ handled' = [ payload |-> payload, raised |-> st.raised,
                           processed |-> st.processed, created |-> st.created,
                           pre |-> [k \in DOMAIN entities |-> Enter(entities[k])] ]
    /\ DiffFrame

\* the device goes offline: every entity of the device is set unavailable
DiffuserOffline ==
    /\ UNCHANGED device
    /\ entities # EmptyDict
    /\ entities' = [k \in DOMAIN entities |-> set_unavailable(Enter(entities[k]))]
    /\ handled' = None
    /\ DiffFrame

\* the device comes back online
DiffuserOnline ==
    /\ UNCHANGED device
    /\ \E k \in DOMAIN entities : ~ entities[k].available
    /\ entities' = [k \in DOMAIN entities |-> set_available(Enter(entities[k]))]
    /\ handled' = None
    /\ DiffFrame

\* the host enables / disables a sensor entity
DiffuserHassConnect(k) ==
    /\ UNCHANGED device
    /\ k \in DOMAIN entities
    /\ entities' = [entities EXCEPT ![k] =
            [Enter(@) EXCEPT !._hass_connected = ~ @]]
    /\ handled' = None
    /\ DiffFrame

NextDiffuser ==
    \/ \E payload \in SensorPayloads : HandleDiffuserSensor(payload)
    \/ \E payload \in SensorPayloads : HandleUndefined(payload)
    \/ DiffuserOffline
    \/ DiffuserOnline
    \/ \E k \in {"humidity", "temperature"} : DiffuserHassConnect(k)

(* EntityManager: the entity registry and the namespace handlers             *)
(* (MerossEntity.__init__ / async_shutdown, MtsClimate.async_shutdown)       *)

\* number of entities a manager holds at once
MaxEntities == 2

\* channels and entitykeys handed to the constructors (the channels are ints)
Channels == {None, Num(0)}

EntityKeys == {None, Txt("temperature")}

\* namespaces whose handler an entity class registers with
Namespaces == {"Appliance.Control.ToggleX", "Appliance.System.All"}

\* a str channel (the id of a hub subdevice), tagged with its type since
\* Python never takes the int 0 for the str "0"
StrChannel(s) == <<"str", s>>

IsStrChannel(channel) == Len(channel) = 2

\* the channels of the entities of hub subdevices
HubChannels == {StrChannel("temperature")}

\* str(channel), as the f-string formats it
ChannelStr(channel) ==
    IF IsStrChannel(channel) THEN channel[2]
    ELSE IF channel = Num(0) THEN "0" ELSE "1"

\* the id computed by MerossEntity.__init__; a key of manager.entities is the
\* pair <<type, value>>
EntityId(channel, entitykey) ==
    IF entitykey = None
    THEN IF IsStrChannel(channel) THEN channel ELSE <<"int", channel[1]>>
    ELSE IF channel = None THEN <<"str", entitykey[1]>>
    ELSE <<"str", ChannelStr(channel) \o "_" \o entitykey[1]>>

\* the two assert statements of MerossEntity.__init__
MerossEntity__init__asserts(m, channel, entitykey) ==
    /\ channel # None \/ entitykey # None
    /\ DictGet(m.entities, EntityId(channel, entitykey), None) = None

\* EntityManager right after its construction
EntityManager__init__ ==
    [ entities           |-> EmptyDict,
      namespace_handlers |-> [ns \in Namespaces |-> {}] ]

\* fault variant of MerossEntity.__init__: the registry is not probed for the id
MerossEntity__init__overwrites(m, channel, entitykey, fields) ==
    IF channel = None /\ entitykey = None
    THEN [ manager |-> m, raised |-> Txt("AssertionError"), id |-> None ]
    ELSE
    LET id == EntityId(channel, entitykey)
        e  == [ channel |-> channel, entitykey |-> entitykey, id |-> id,
                namespace_handlers |-> {}, manager |-> Txt("manager") ] @@ fields
    IN  [ manager |-> [m EXCEPT !.entities = DictSet(@, id, e)],
          raised  |-> None,
          id      |-> id ]

\* MerossEntity.__init__ on manager m; `fields` is what the initializers of the
\* class computed (MerossEntity__init__ and its extensions above).
\* Yields the manager afterwards, the exception raised and the id registered.
MerossEntity__init__on(m, channel, entitykey, fields) ==
    IF ~ MerossEntity__init__asserts(m, channel, entitykey)
    THEN [ manager |-> m, raised |-> Txt("AssertionError"), id |-> None ]
    ELSE
    LET id == EntityId(channel, entitykey)
        e  == [ channel |-> channel, entitykey |-> entitykey, id |-> id,
                namespace_handlers |-> {}, manager |-> Txt("manager") ] @@ fields
    IN  [ manager |-> [m EXCEPT !.entities = DictSet(@, id, e)],
          raised  |-> None,
          id      |-> id ]

\* NamespaceHandler.register_entity (helpers/namespaces.py)
NamespaceHandler_register_entity(m, ns, id) ==
    [m EXCEPT !.namespace_handlers[ns] = @ \cup {id},
              !.entities[id].namespace_handlers = @ \cup {ns}]

\* NamespaceHandler.unregister (helpers/namespaces.py): a no-op for an entity
\* the handler does not hold
NamespaceHandler_unregister(m, ns, id) ==
    IF id \in m.namespace_handlers[ns]
    THEN [m EXCEPT !.namespace_handlers[ns] = @ \ {id},
                   !.entities[id].namespace_handlers = @ \ {ns}]
    ELSE m

\* for ns in nss: handler(ns).register_entity(entity)
RECURSIVE RegisterAll(_, _, _)
RegisterAll(m, nss, id) ==
    IF nss = {} THEN m
    ELSE LET ns == CHOOSE n \in nss : TRUE
         IN  RegisterAll(NamespaceHandler_register_entity(m, ns, id), nss \ {ns}, id)

\* for handler in set(self.namespace_handlers): handler.unregister(self)
RECURSIVE UnregisterAll(_, _, _)
UnregisterAll(m, nss, id) ==
    IF nss = {} THEN m
    ELSE LET ns == CHOOSE n \in nss : TRUE
         IN  UnregisterAll(NamespaceHandler_unregister(m, ns, id), nss \ {ns}, id)

\* fault variant of async_shutdown: the entity stays in manager.entities
MerossEntity_async_shutdown_keeps_entry(m, id) ==
    LET m1 == UnregisterAll(m, m.entities[id].namespace_handlers, id)
    IN  [ manager |-> m1,
          entity  |-> [m1.entities[id] EXCEPT !.manager = None] ]

\* fault variant of async_shutdown: the identity is dropped with the manager
MerossEntity_async_shutdown_clears_identity(m, id) ==
    LET m1 == UnregisterAll(m, m.entities[id].namespace_handlers, id)
        e  == m1.entities[id]
    IN  [ manager |-> [m1 EXCEPT !.entities =
                            [k \in (DOMAIN @) \ {e.id} |-> @[k]]],
          entity  |-> [e EXCEPT !.manager = None, !.channel = None,
                                !.entitykey = None] ]

\* MerossEntity.async_shutdown of the entity registered under id: the manager
\* afterwards and the entity object, which outlives its registration
MerossEntity_async_shutdown(m, id) ==
    LET m1 == UnregisterAll(m, m.entities[id].namespace_handlers, id)
        e  == m1.entities[id]
    IN  [ manager |-> [m1 EXCEPT !.entities =
                            [k \in (DOMAIN @) \ {e.id} |-> @[k]]],
          entity  |-> [e EXCEPT !.manager = None] ]

MtsClimate_async_shutdown(m, id) ==
    LET r == MerossEntity_async_shutdown(m, id)
    IN  [r EXCEPT !.entity.sensor_current_temperature = None]

\* self.async_shutdown(): method resolution
async_shutdown(m, id) ==
    IF m.entities[id].cls = "MtsClimate"
    THEN MtsClimate_async_shutdown(m, id)
    ELSE MerossEntity_async_shutdown(m, id)

\* a toggle class (MerossToggle.__init__ and the registrations of its namespace
\* handlers that follow it in the constructor of the class)
MerossToggle__init__on(m, channel, entitykey, onoff, nss) ==
    LET r == MerossEntity__init__on(m, channel, entitykey,
                                    MerossBinaryEntity__init__("MerossToggle", onoff))
    IN  IF r.raised # None THEN r
        ELSE [r EXCEPT !.manager = RegisterAll(@, nss, r.id)]

\* MtsClimate.__init__ on manager m: the climate and then its temperature sensor
\* (MLTemperatureSensor(manager, channel), entitykey "temperature"); the values
\* the thermostat caches are those of MtsClimate__init__ above
MtsClimate__init__on(m, channel) ==
    LET r1 == MerossEntity__init__on(m, channel, None,
                    [sensor_current_temperature |-> None]
                    @@ MerossEntity__init__("MtsClimate", None, FALSE))
    IN  IF r1.raised # None THEN r1
        ELSE
        LET r2 == MerossEntity__init__on(r1.manager, channel, Txt("temperature"),
                    [MerossNumericEntity__init__(1, None)
                        EXCEPT !.cls = "MLTemperatureSensor"])
        IN  IF r2.raised # None
            THEN [r2 EXCEPT !.id = r1.id]
            ELSE [ manager |-> [r2.manager EXCEPT
                        !.entities[r1.id].sensor_current_temperature = <<r2.id>>],
                   raised  |-> None,
                   id      |-> r1.id ]

\* an operation on the manager starts: the flush recorders are reset
MgrEnter(m) == [m EXCEPT !.entities = [k \in DOMAIN @ |-> Enter(@[k])]]

\* the operation that ran, the id it was about, the constructor arguments, the
\* exception it raised, the entity object it shut down and the manager it found
MgrCalled(op, id, arg, raised, entity) ==
    mgrcall' = [ op |-> op, id |-> id, arg |-> arg, raised |-> raised,
                 entity |-> entity, pre |-> MgrEnter(manager) ]

MgrFrame ==
    UNCHANGED <<ent, call, climate, climcall, entities, handled, device, host, wire,
                digest, emucall>>

\* the ids under which the constructors above may register an entity
Ids ==
    { EntityId(p[1], p[2]) :
        p \in { q \in (Channels \cup HubChannels) \X EntityKeys : q # <<None, None>> } }

\* the entities a construction may leave registered, within the bound
Fits(m) == Cardinality(DOMAIN m.entities) <= MaxEntities

\* MerossToggle(manager, channel, entitykey, onoff=onoff) of a toggle class
\* registering with the handlers of nss
MgrCreateToggle(channel, entitykey, onoff, nss) ==
    /\ LET r == MerossToggle__init__on(MgrEnter(manager), channel, entitykey, onoff, nss)
       IN  /\ Fits(r.manager)
           /\ manager' = r.manager
           /\ MgrCalled("__init__", r.id,
                        [channel |-> channel, entitykey |-> entitykey],
                        r.raised, None)
    /\ UNCHANGED requests /\ MgrFrame

\* MtsClimate(manager, channel, ...)
MgrCreateClimate(channel) ==
    /\ LET r == MtsClimate__init__on(MgrEnter(manager), channel)
       IN  /\ Fits(r.manager)
           /\ manager' = r.manager
           /\ MgrCalled("MtsClimate.__init__", r.id,
                        [channel |-> channel, entitykey |-> None],
                        r.raised, None)
    /\ UNCHANGED requests /\ MgrFrame

\* entity.async_shutdown(); the commands of the entity that still await their
\* acknowledgment resume on an object the manager no longer holds
MgrShutdown(id) ==
    /\ id \in DOMAIN manager.entities
    /\ LET r == async_shutdown(MgrEnter(manager), id)
       IN  /\ manager' = r.manager
           /\ MgrCalled("async_shutdown", id, None, None, r.entity)
    /\ requests' = [r \in {q \in BagToSet(requests) : q.id # id} |-> requests[r]]
    /\ MgrFrame

\* a handler of the entity registered under id
MgrApply(op, id, e) ==
    /\ manager' = [MgrEnter(manager) EXCEPT !.entities[id] = e]
    /\ MgrCalled(op, id, None, None, None)
    /\ UNCHANGED requests /\ MgrFrame

MgrAddedToHass(id) ==
    /\ id \in DOMAIN manager.entities
    /\ ~ manager.entities[id]._hass_connected
    /\ MgrApply("async_added_to_hass", id,
                [Enter(manager.entities[id]) EXCEPT !._hass_connected = TRUE])

MgrWillRemoveFromHass(id) ==
    /\ id \in DOMAIN manager.entities
    /\ manager.entities[id]._hass_connected
    /\ MgrApply("async_will_remove_from_hass", id,
                [Enter(manager.entities[id]) EXCEPT !._hass_connected = FALSE])

MgrSetAvailable(id) ==
    /\ id \in DOMAIN manager.entities
    /\ MgrApply("set_available", id, set_available(Enter(manager.entities[id])))

MgrSetUnavailable(id) ==
    /\ id \in DOMAIN manager.entities
    /\ manager.entities[id].cls # "MtsClimate"
    /\ MgrApply("set_unavailable", id, set_unavailable(Enter(manager.entities[id])))

\* an inbound Toggle/ToggleX payload item routed to the entity
MgrParseToggle(id, onoff) ==
    /\ id \in DOMAIN manager.entities
    /\ manager.entities[id].cls = "MerossToggle"
    /\ MgrApply("update_onoff", id, _parse_toggle(Enter(manager.entities[id]), onoff))

\* async_turn_on() up to the await in async_request_onoff
MgrRequestOnoff(id, onoff) ==
    /\ id \in DOMAIN manager.entities
    /\ manager.entities[id].cls = "MerossToggle"
    /\ BagCardinality(requests) < MaxInFlight
    /\ requests' = requests (+) SetToBag({[kind |-> "onoff", onoff |-> onoff, id |-> id]})
    /\ manager' = MgrEnter(manager)
    /\ MgrCalled("async_request_onoff", id, None, None, None)
    /\ MgrFrame

\* manager.async_request_ack returns `ack` to the suspended coroutine r
MgrResume(r, ack) ==
    /\ r \in BagToSet(requests)
    /\ manager' = [MgrEnter(manager) EXCEPT !.entities[r.id] =
                        async_request_onoff_resume(Enter(@), r.onoff, ack)]
    /\ MgrCalled(IF ack THEN "ack" ELSE "nack", r.id, None, None, None)
    /\ requests' = requests (-) SetToBag({r})
    /\ MgrFrame

\* constructions and teardowns on one manager
NextManager ==
    \/ \E channel \in Channels \cup HubChannels, entitykey \in EntityKeys,
          onoff \in {None, Num(1)}, nss \in SUBSET Namespaces :
            MgrCreateToggle(channel, entitykey, onoff, nss)
    \/ \E channel \in Channels : MgrCreateClimate(channel)
    \/ \E id \in Ids : MgrShutdown(id)

\* the life of the entities a manager holds, up to their teardown
NextRegistered ==
    \/ \E id \in Ids : MgrAddedToHass(id)
    \/ \E id \in Ids : MgrWillRemoveFromHass(id)
    \/ \E id \in Ids : MgrSetAvailable(id)
    \/ \E id \in Ids : MgrSetUnavailable(id)
    \/ \E id \in Ids, onoff \in OnOffValues : MgrParseToggle(id, onoff)
    \/ \E id \in Ids, onoff \in {0, 1} : MgrRequestOnoff(id, Num(onoff))
    \/ \E r \in BagToSet(requests), ack \in BOOLEAN : MgrResume(r, ack)
    \/ \E id \in Ids : MgrShutdown(id)

----------------------------------------------------------------------------
(* Emulator: ThermostatMixin (emulator/mixins/thermostat.py) *)

\* number of items in the mode list of a SET payload
MaxItems == 2

\* merossclient.const
MTS200_MODE_HEAT == Num(0)

MTS200_MODE_COOL == Num(1)

MTS200_MODE_ECO == Num(2)

MTS200_MODE_AUTO == Num(3)

MTS200_MODE_CUSTOM == Num(4)

MODE_KEY_MAP ==
    [ mode \in {MTS200_MODE_HEAT, MTS200_MODE_COOL, MTS200_MODE_ECO, MTS200_MODE_CUSTOM} |->
        CASE mode = MTS200_MODE_HEAT   -> "heatTemp"
          [] mode = MTS200_MODE_COOL   -> "coolTemp"
          [] mode = MTS200_MODE_ECO    -> "ecoTemp"
          [] mode = MTS200_MODE_CUSTOM -> "manualTemp" ]

\* dict.update
DictUpdate(d, other) ==
    [k \in (DOMAIN d) \cup (DOMAIN other) |-> IF k \in DOMAIN other THEN other[k] ELSE d[k]]

\* merossclient.get_element_by_key: the position of the element of the list
\* whose `key` is `value`
get_element_by_key(list, key, value) ==
    CHOOSE i \in 1 .. Len(list) : list[i][key] = value

\* fault variant of the state computation: onoff is not consulted
ModeEntry_state_ignores_onoff(p_digest_mode, p_mode) ==
    LET e1   == DictUpdate(p_digest_mode, p_mode)
        mode == e1["mode"]
        e2   == IF mode \in DOMAIN MODE_KEY_MAP
                THEN DictSet(e1, "targetTemp", e1[MODE_KEY_MAP[mode]])
                ELSE e1
    IN  DictSet(e2, "state",
                IF e2["targetTemp"][1] > e2["currentTemp"][1] THEN Num(1) ELSE Num(0))

\* fault variant of the mode handling: the targetTemp of the payload is kept
ModeEntry_keeps_target(p_digest_mode, p_mode) ==
    LET e1   == DictUpdate(p_digest_mode, p_mode)
        mode == e1["mode"]
        e2   == IF mode \in DOMAIN MODE_KEY_MAP /\ "targetTemp" \notin DOMAIN p_mode
                THEN DictSet(e1, "targetTemp", e1[MODE_KEY_MAP[mode]])
                ELSE e1
    IN  DictSet(e2, "state",
                IF Truthy(e2["onoff"])
                THEN IF e2["targetTemp"][1] > e2["currentTemp"][1] THEN Num(1) ELSE Num(0)
                ELSE Num(0))

\* what one iteration of the loop makes of the digest entry of the channel:
\* update with the payload item, targetTemp of the mode, state
ModeEntry(p_digest_mode, p_mode) ==
    LET e1   == DictUpdate(p_digest_mode, p_mode)
        mode == e1["mode"]
        e2   == IF mode \in DOMAIN MODE_KEY_MAP
                THEN DictSet(e1, "targetTemp", e1[MODE_KEY_MAP[mode]])
                ELSE e1
    IN  DictSet(e2, "state",
                IF Truthy(e2["onoff"])
                THEN IF e2["targetTemp"][1] > e2["currentTemp"][1] THEN Num(1) ELSE Num(0)
                ELSE Num(0))

\* the loop over p_digest_windowopened_list: the first entry of the channel has
\* its status switched
SwitchWindow(windowopened_list, channel) ==
    IF \E i \in 1 .. Len(windowopened_list) : windowopened_list[i]["channel"] = channel
    THEN LET i == CHOOSE j \in 1 .. Len(windowopened_list) :
                    /\ windowopened_list[j]["channel"] = channel
                    /\ \A h \in 1 .. (j - 1) : windowopened_list[h]["channel"] # channel
         IN  [windowopened_list EXCEPT
                ![i] = DictSet(@, "status", IF Truthy(@["status"]) THEN Num(0) ELSE Num(1))]
    ELSE windowopened_list

\* the loop of _SET_Appliance_Control_Thermostat_Mode over p_mode_list; st holds
\* the digest and whether the local p_digest_windowopened_list, assigned {} before
\* the loop, refers to the windowOpened list of the digest
RECURSIVE SetModeLoop(_, _)
SetModeLoop(st, p_mode_list) ==
    IF p_mode_list = <<>> THEN st
    ELSE
    LET p_mode  == Head(p_mode_list)
        channel == p_mode["channel"]
        i       == get_element_by_key(st.digest.mode, "channel", channel)
        entry   == ModeEntry(st.digest.mode[i], p_mode)
        listed  == st.windowopened_list \/ entry["mode"] \notin DOMAIN MODE_KEY_MAP
        d1      == [st.digest EXCEPT !.mode[i] = entry]
        d2      == IF listed
                   THEN [d1 EXCEPT !.windowOpened = SwitchWindow(@, channel)]
                   ELSE d1
    IN  SetModeLoop([digest |-> d2, windowopened_list |-> listed], Tail(p_mode_list))

\* ThermostatMixin._SET_Appliance_Control_Thermostat_Mode on the thermostat digest:
\* the digest afterwards and the reply
_SET_Appliance_Control_Thermostat_Mode(p_digest, payload) ==
    [ digest |-> SetModeLoop([digest |-> p_digest, windowopened_list |-> FALSE],
                             payload["mode"]).digest,
      reply  |-> <<"SETACK", EmptyDict>> ]

\* the channels of the emulated thermostat
EmuChannels == {Num(0), Num(1)}

\* a digest mode entry as the emulator traces hold it
DigestMode(channel) ==
    [ channel |-> channel, mode |-> MTS200_MODE_AUTO, onoff |-> Num(1), state |-> Num(0),
      currentTemp |-> Num(200), targetTemp |-> Num(200), heatTemp |-> Num(220),
      coolTemp |-> Num(180), ecoTemp |-> Num(150), manualTemp |-> Num(200),
      min |-> Num(50), max |-> Num(350) ]

ThermostatDigest ==
    [ mode         |-> <<DigestMode(Num(0)), DigestMode(Num(1))>>,
      windowOpened |-> <<[channel |-> Num(0), status |-> Num(0)],
                         [channel |-> Num(1), status |-> Num(0)]>> ]

\* the items of the mode list of a SET: a channel and any of mode, onoff, targetTemp
ModeItems ==
    { DictUpdate(DictUpdate([channel |-> Num(0)], m), DictUpdate(o, t)) :
        m \in {EmptyDict} \cup { [mode |-> Num(v)] : v \in 0 .. 4 },
        o \in {EmptyDict, [onoff |-> Num(0)]},
        t \in {EmptyDict, [targetTemp |-> Num(250)]} }

\* the items of the lists of several items
ListedItems ==
    { [channel |-> Num(0), mode |-> MTS200_MODE_AUTO],
      [channel |-> Num(0), mode |-> MTS200_MODE_HEAT],
      [channel |-> Num(1), mode |-> MTS200_MODE_HEAT] }

SetModePayloads ==
    { [mode |-> <<item>>] : item \in ModeItems }
    \cup { [mode |-> list] : list \in UNION { [1 .. n -> ListedItems] : n \in 2 .. MaxItems } }

EmuFrame ==
    UNCHANGED <<ent, requests, call, climate, climcall, entities, handled, device, host,
                wire, manager, mgrcall>>

\* a SET Appliance.Control.Thermostat.Mode received by the emulator
EmuSetThermostatMode(payload) ==
    /\ LET r == _SET_Appliance_Control_Thermostat_Mode(digest, payload)
       IN  /\ digest' = r.digest
           /\ emucall' = [payload |-> payload, pre |-> digest, reply |-> r.reply]
    /\ EmuFrame

NextEmulator ==
    \E payload \in SetModePayloads : EmuSetThermostatMode(payload)

----------------------------------------------------------------------------
(* Specifications *)

\* what the variables of the other components hold while one is exercised
IdleEntity ==
    /\ ent = MerossEntity__init__("MerossEntity", None, FALSE)
    /\ requests = EmptyBag
    /\ host = None
    /\ wire = QuietWire(Num(0))
    /\ call = [op |-> "__init__", arg |-> None, pre |-> None]

IdleClimate ==
    /\ climate = MtsClimate__init__({})
    /\ climcall = [op |-> "__init__", arg |-> None, pre |-> None]

IdleDiffuser ==
    /\ entities = EmptyDict
    /\ handled = None
    /\ device = DiffuserDevice({})

IdleEmulator ==
    /\ digest = ThermostatDigest
    /\ emucall = None

IdleManager ==
    /\ manager = EntityManager__init__
    /\ mgrcall = [ op |-> "EntityManager.__init__", id |-> None, arg |-> None,
                   raised |-> None, entity |-> None, pre |-> None ]

\* an entity right after its construction
InitEntity ==
    /\ \E c \in EntConstructions :
            /\ ent = c.ent
            /\ call = [ op |-> "__init__",
                        arg |-> [value |-> c.value, available |-> c.available],
                        pre |-> None ]
    /\ requests = EmptyBag
    /\ host = None
    /\ wire = QuietWire(Num(0))
    /\ IdleClimate /\ IdleDiffuser /\ IdleManager /\ IdleEmulator

\* a diffuser after digest_init_diffuser: no sensor entity exists yet
InitDiffuser ==
    /\ entities = EmptyDict
    /\ handled = None
    /\ \E ability \in Abilities : device = digest_init_diffuser(ability)
    /\ IdleEntity /\ IdleClimate /\ IdleManager /\ IdleEmulator

\* a thermostat entity right after its construction
InitClimate ==
    /\ climate \in { MtsClimate__init__(mask) : mask \in Masks }
    /\ climcall = [op |-> "__init__", arg |-> None, pre |-> None]
    /\ IdleEntity /\ IdleDiffuser /\ IdleManager /\ IdleEmulator

\* an entity right after its construction, not yet written to the host
InitHost ==
    /\ \E c \in EntConstructions :
            /\ c.ent.cls # "MLDiffuserLight"
            /\ ent = c.ent
            /\ call = [ op |-> "__init__",
                        arg |-> [value |-> c.value, available |-> c.available],
                        pre |-> None ]
    /\ requests = EmptyBag
    /\ host = None
    /\ wire = QuietWire(Num(0))
    /\ IdleClimate /\ IdleDiffuser /\ IdleManager /\ IdleEmulator

\* the entity classes of meross_entity.py and what the host is told of them
SpecHost == InitHost /\ [][NextHost]_vars

\* a toggle constructed from the digest of its device, or constructed without a
\* value while the first state payload of the device is on its way
InitWire ==
    /\ \E onoff \in {Num(0), Num(1)} :
            \/ /\ ent = MerossBinaryEntity__init__("MerossToggle", onoff)
               /\ wire = QuietWire(onoff)
            \/ /\ ent = MerossBinaryEntity__init__("MerossToggle", None)
               /\ wire = [QuietWire(onoff) EXCEPT !.rx = <<[kind |-> "push", onoff |-> onoff]>>]
    /\ call = [op |-> "__init__", arg |-> None, pre |-> None]
    /\ requests = EmptyBag
    /\ host = None
    /\ IdleClimate /\ IdleDiffuser /\ IdleManager /\ IdleEmulator

\* a toggle and its device, with commands and state payloads in flight
SpecWire == InitWire /\ [][NextWire]_vars

\* the entity classes of meross_entity.py and the diffuser light
SpecEntity == InitEntity /\ [][NextEntity]_vars

\* the thermostat entity of climate.py
SpecClimate == InitClimate /\ [][NextClimate]_vars

\* the sensors of a diffuser, which may advertise Appliance.Control.Diffuser.Sensor
SpecDiffuser == InitDiffuser /\ [][NextDiffuser]_vars

\* a manager right after its construction: no entity yet
InitManager == IdleManager /\ IdleEntity /\ IdleClimate /\ IdleDiffuser /\ IdleEmulator

\* a manager on which one toggle, or one thermostat with its sensor, was constructed
InitRegistered ==
    /\ \/ \E p \in { q \in Channels \X EntityKeys : q # <<None, None>> },
             onoff \in OnOffValues, nss \in SUBSET Namespaces :
                LET r == MerossToggle__init__on(EntityManager__init__, p[1], p[2], onoff, nss)
                IN  /\ manager = r.manager
                    /\ mgrcall = [ op |-> "__init__", id |-> r.id,
                                   arg |-> [channel |-> p[1], entitykey |-> p[2]],
                                   raised |-> None, entity |-> None,
                                   pre |-> EntityManager__init__ ]
       \/ LET r == MtsClimate__init__on(EntityManager__init__, Num(0))
          IN  /\ manager = r.manager
              /\ mgrcall = [ op |-> "MtsClimate.__init__", id |-> r.id,
                             arg |-> [channel |-> Num(0), entitykey |-> None],
                             raised |-> None, entity |-> None,
                             pre |-> EntityManager__init__ ]
    /\ IdleEntity /\ IdleClimate /\ IdleDiffuser /\ IdleEmulator

\* an emulated thermostat as its descriptor was loaded
InitEmulator ==
    /\ digest = ThermostatDigest
    /\ emucall = None
    /\ IdleEntity /\ IdleClimate /\ IdleDiffuser /\ IdleManager

\* the emulator of a thermostat handling SET Appliance.Control.Thermostat.Mode
SpecEmulator == InitEmulator /\ [][NextEmulator]_vars

\* the entity registry of a manager
SpecManager == InitManager /\ [][NextManager]_vars

\* the entities of a manager between their construction and their teardown
SpecRegistered == InitRegistered /\ [][NextRegistered]_vars

----------------------------------------------------------------------------
(* Properties of the reconcile calls (SpecEntity) *)

Reconciles == {"update_state", "update_onoff", "update_device_value"}

\* the field a reconcile call compares its argument with
CachedBy(op, e) ==
    CASE op = "update_state"        -> e._attr_state
      [] op = "update_onoff"        -> e.is_on
      [] op = "update_device_value" -> e.device_value

\* C1: a reconcile call (update_state, update_onoff, update_device_value) calls
\* flush_state exactly once when its argument differs from the value cached right
\* before the call, and otherwise leaves the entity as it was, without a flush.
C1_FlushIffDiffers ==
    call.op \in Reconciles =>
        LET cached == CachedBy(call.op, call.pre)
        IN  /\ ent.flushed = (IF call.arg # cached THEN 1 ELSE 0)
            /\ CachedBy(call.op, ent) = call.arg
            /\ call.arg = cached => ent = call.pre

C1_Witness ==
    /\ call.op = "update_device_value"
    /\ call.pre.available
    /\ call.arg = call.pre.device_value
    /\ ent.flushed = 0

\* C2 as stated: reconciling a non-null value leaves the entity available.
C2_ReconcileMakesAvailable ==
    (call.op \in Reconciles /\ call.arg # None) => ent.available

\* C2 amended: a reconcile call never changes `available` (only set_available and
\* set_unavailable do, and set_available does not flush): update_onoff(1) on an
\* unavailable toggle that is not on caches is_on = 1 with exactly one flush and
\* leaves it unavailable; preceded by set_available it leaves the entity available
\* and on after exactly one flush.
C2_AvailableOnlyBySetAvailable ==
    /\ call.op \in Reconciles => ent.available = call.pre.available
    /\ call.op = "set_available" => ent.available /\ ent.flushed = 0
    /\ (call.op = "update_onoff" /\ call.arg = Num(1) /\ call.pre.is_on # Num(1)) =>
            ent.is_on = Num(1) /\ ent.flushed = 1

C2_Witness ==
    /\ call.op = "update_onoff"
    /\ call.arg = Num(1)
    /\ ~ call.pre.available /\ call.pre.is_on = None
    /\ ent.is_on = Num(1) /\ ent.flushed = 1 /\ ~ ent.available

\* C3: set_unavailable flushes exactly when the entity was available before the
\* call (even with a null cached value) and leaves it unavailable, so the second of
\* two consecutive set_unavailable calls does not flush.
C3_SetUnavailableEdgeTriggered ==
    [][ /\ call'.op = "set_unavailable" =>
            /\ ent'.flushed = (IF call'.pre.available THEN 1 ELSE 0)
            /\ ~ ent'.available
        /\ (call.op = "set_unavailable" /\ call'.op = "set_unavailable") =>
            ent'.flushed = 0 ]_vars

C3_Witness ==
    /\ call.op = "set_unavailable"
    /\ call.pre.cls = "MerossToggle"
    /\ call.pre.available /\ call.pre.is_on = None
    /\ ent.flushed = 1

\* C4 as stated: native_value == device_value / device_scale after every
\* update_device_value call.
C4_ScaleAfterEveryUpdate ==
    call.op = "update_device_value" =>
        ent.native_value = TrueDiv(ent.device_value, ent.device_scale)

\* C4 amended: after an update_device_value(v) call whose v differs from the cached
\* device_value, device_value == v and native_value == v / device_scale; a call
\* with the cached device_value changes nothing (native_value stays what a
\* preceding update_native_value made it).
C4_ScaleAfterChangingUpdate ==
    call.op = "update_device_value" =>
        IF call.arg # call.pre.device_value
        THEN /\ ent.device_value = call.arg
             /\ ent.native_value = TrueDiv(call.arg, ent.device_scale)
        ELSE ent = call.pre

C4_Witness ==
    /\ call.op = "update_device_value"
    /\ call.pre.device_scale = 10
    /\ call.pre.native_value = Num(5)
    /\ ent.device_value = Num(42)
    /\ ent.native_value = Rat(21, 5)

\* C6: a SET command (async_request_onoff, MLDiffuserLight.async_turn_on with
\* arguments) changes nothing of the entity while it sends its request, and when
\* async_request_ack reports no acknowledgment the resumed command leaves the
\* entity exactly as it found it: no cached field changes, no flush, no host write.
C6_NoAckNoMutation ==
    call.op \in {"async_request_onoff", "async_turn_on", "nack"} => ent = call.pre

C6_Witness ==
    /\ call.op = "nack"
    /\ call.arg.kind = "light"
    /\ call.arg.light # ent._light
    /\ ent.available

\* C7: an acknowledged async_turn_on / async_turn_off leaves is_on equal to the
\* requested value (true / false) whatever the entity held; the host is written
\* only when the entity is connected to it.
C7_AckSetsIsOn ==
    (call.op = "ack" /\ call.arg.kind = "onoff") =>
        /\ ent.is_on = call.arg.onoff
        /\ Truthy(ent.is_on) = (call.arg.onoff = Num(1))
        /\ ent.flushed = (IF call.pre.is_on # call.arg.onoff THEN 1 ELSE 0)
        /\ ent.written = (IF ent._hass_connected THEN ent.flushed ELSE 0)

C7_Witness ==
    /\ call.op = "ack" /\ call.arg.kind = "onoff"
    /\ ~ ent._hass_connected
    /\ call.pre.is_on = None
    /\ ent.is_on = Num(1) /\ ent.flushed = 1 /\ ent.written = 0

\* C8: set_unavailable on an available numeric entity leaves device_value and
\* native_value null and flushes exactly once.
C8_UnavailableClearsNumeric ==
    (call.op = "set_unavailable" /\ call.pre.cls = "MerossNumericEntity"
        /\ call.pre.available) =>
        /\ ent.device_value = None /\ ent.native_value = None
        /\ ~ ent.available
        /\ ent.flushed = 1

C8_Witness ==
    /\ call.op = "set_unavailable"
    /\ call.pre.cls = "MerossNumericEntity"
    /\ call.pre.available
    /\ call.pre.device_scale = 10
    /\ call.pre.device_value = Num(42) /\ call.pre.native_value = Rat(42, 10)
    /\ ent.device_value = None /\ ent.native_value = None /\ ent.flushed = 1

\* the fields in which an entity caches what the device reported
CachedFields(e) ==
    (DOMAIN e) \cap {"_attr_state", "device_value", "native_value", "is_on", "effect"}

\* C18: a constructed entity is available exactly when it was given an initial
\* value (state, device_value, onoff), an `available` flag or a class-level
\* default; constructed with none of them it is unavailable and every value it
\* caches is null.
C18_InitialAvailability ==
    (call.op = "__init__" /\ call.arg # None) =>
        /\ ent.available =
                (call.arg.value # None \/ call.arg.available \/ _attr_available)
        /\ ~ ent.available => \A f \in CachedFields(ent) : ent[f] = None
        /\ ~ ent._hass_connected

C18_Witness ==
    /\ call.op = "__init__"
    /\ ent.cls = "MerossNumericEntity"
    /\ ent.device_scale = 10
    /\ call.arg.value = None /\ ~ call.arg.available
    /\ ~ ent.available
    /\ ent.device_value = None /\ ent.native_value = None

\* C14: the second of two consecutive calls of the same reconcile operation
\* (update_state, update_onoff, update_device_value) with the same value does not
\* flush and leaves the entity as the first call left it; the first flushes at
\* most once.
C14_ReconcileIdempotent ==
    [][ ( /\ call.op \in Reconciles
          /\ call'.op = call.op
          /\ call'.arg = call.arg ) =>
            /\ ent.flushed <= 1
            /\ ent'.flushed = 0
            /\ ent' = Enter(ent) ]_vars

C14_Witness ==
    /\ call.op = "update_onoff"
    /\ call.arg = Num(0)
    /\ call.pre.is_on = Num(0)
    /\ ent._hass_connected
    /\ ent.flushed = 0 /\ ent.written = 0
    /\ ent = call.pre

HoldsNoValue(e) == \A f \in ValueFields(e) : e[f] = None

\* the calls that store a value received from the device
ValueOps == Reconciles \cup {"update_native_value", "_parse_light", "ack"}

\* C23 as stated: an unavailable entity holds no cached value.
C23_UnavailableHoldsNoValue ==
    ~ ent.available => HoldsNoValue(ent)

\* C23 amended: an entity constructed unavailable, and an entity right after
\* set_unavailable, is unavailable with every cached value null; an unavailable
\* entity holds a non-null value only when a reconcile call (or an acknowledged
\* command) stored it while the entity was unavailable, which leaves it
\* unavailable, or when it held it, unavailable, before the last call.
C23_UnavailableValueOnlyByReconcile ==
    /\ call.op \in {"__init__", "set_unavailable"} =>
            (~ ent.available => HoldsNoValue(ent))
    /\ call.op = "set_unavailable" => ~ ent.available
    /\ (call.op # "__init__" /\ ~ ent.available /\ ~ HoldsNoValue(ent)) =>
            /\ ~ call.pre.available
            /\ \/ call.op \in ValueOps
               \/ \A f \in ValueFields(ent) : ent[f] = call.pre[f]

C23_Witness ==
    /\ call.op = "ack" /\ call.arg.kind = "onoff"
    /\ call.pre.cls = "MerossToggle"
    /\ ~ call.pre.available /\ call.pre.is_on = None
    /\ ~ ent.available
    /\ ent.is_on = Num(1)

\* C24: the host never keeps a stale view of a connected entity: after
\* set_available followed by a reconcile call the state last written to the host
\* is the entity's (available, with its cached value), and every handler other
\* than set_available that changes a cached value or the availability of a
\* connected entity writes the host.
C24_HostNeverStale ==
    [][ /\ ( /\ call.op = "set_available"
              /\ call'.op \in Reconciles
              /\ ent._hass_connected ) =>
                /\ host' = HaState(ent')
                /\ host'.available
        /\ ( /\ ent'._hass_connected
              /\ call'.op # "set_available"
              /\ HaState(ent') # HaState(ent) ) =>
                host' = HaState(ent') ]_vars

----------------------------------------------------------------------------
(* Properties of a toggle and its device (SpecWire) *)

\* no command and no device message is in flight
NothingInFlight == wire.tx = <<>> /\ wire.rx = <<>>

\* C22: with the device's replies and state payloads delivered in the order the
\* device emitted them, a SET command and the state payloads processed while it
\* is in flight leave, once nothing is in flight any more, the cached is_on
\* equal to the on/off state of the device.
C22_InterleavingConverges ==
    NothingInFlight =>
        /\ requests = EmptyBag
        /\ ent.is_on = wire.onoff

C22_Witness ==
    /\ NothingInFlight
    /\ call.op = "ack"
    /\ call.arg.interleaved
    /\ call.pre.is_on # call.arg.onoff
    /\ ent.is_on = Num(1)
    /\ wire.onoff = Num(1)

----------------------------------------------------------------------------
(* Properties of the diffuser light (SpecEntity) *)

\* light.turn_on carries an RGB color and no effect
RgbNoEffect(kwargs) ==
    "rgb_color" \in DOMAIN kwargs /\ "effect" \notin DOMAIN kwargs

\* the fields of the payload sent that async_turn_on sets for an RGB color
RgbFieldsSent(light, kwargs) ==
    /\ DictGet(light, "rgb", None) =
            Num(kwargs["rgb_color"][1] * 65536 + kwargs["rgb_color"][2] * 256
                + kwargs["rgb_color"][3])
    /\ DictGet(light, "onoff", None) = Num(1)
    /\ DictGet(light, "mode", None) = Num(1)

C21_LuminanceSent ==
    call.op = "async_turn_on" =>
        LET sent   == call.arg.light
            kwargs == call.arg.kwargs
            cached == call.pre._light
        IN  /\ DictGet(sent, "onoff", None) = Num(1)
            /\ "luminance" \in DOMAIN sent
            /\ sent["luminance"][1] \in 1 .. 100
            /\ "brightness" \in DOMAIN kwargs =>
                    LET b == kwargs["brightness"]
                        l == (b * 100) \div 255
                    IN  /\ l \in 1 .. 100 => sent["luminance"] = Num(l)
                        /\ l < 1 => sent["luminance"] = Num(1)
                        /\ l > 100 => sent["luminance"] = Num(100)
                        /\ b \in {0, 1} => sent["luminance"] = Num(1)
                        /\ b = 128 => sent["luminance"] = Num(50)
                        /\ b = 255 => sent["luminance"] = Num(100)
            /\ "brightness" \notin DOMAIN kwargs =>
                    sent["luminance"] =
                        IF "luminance" \in DOMAIN cached /\ cached["luminance"] # Num(0)
                        THEN cached["luminance"] ELSE Num(100)

C21_Witness ==
    /\ call.op = "async_turn_on"
    /\ call.arg.kwargs = [brightness |-> 1]
    /\ DictGet(call.pre._light, "luminance", None) = Num(100)
    /\ call.arg.light["luminance"] = Num(1)
    /\ call.arg.light["onoff"] = Num(1)

\* the light payload the last handler parsed and whether _parse_light applied it
ParsedLight ==
    IF call.op = "_parse_light" THEN call.arg ELSE call.arg.light

\* C20: parsing the mode of a light payload always completes: the color mode
\* selects no effect, a mode that indexes the effect list selects that entry, any
\* other mode is logged and selects no effect, and a payload without mode leaves
\* the effect as it was.
C20_LightModeNeverFails ==
    ( \/ call.op = "_parse_light"
      \/ call.op = "ack" /\ call.arg.kind = "light" ) =>
        IF call.pre._light = ParsedLight THEN ent = call.pre
        ELSE
        LET mode == DictGet(ParsedLight, "mode", None)
        IN  /\ ent.flushed = 1
            /\ ent._light = ParsedLight
            /\ "mode" \notin DOMAIN ParsedLight =>
                    ent.effect = call.pre.effect /\ ent.logged = 0
            /\ mode = Num(1) => ent.effect = None /\ ent.logged = 0
            /\ mode = Num(0) => ent.effect = Txt("Rainbow") /\ ent.logged = 0
            /\ mode = Num(2) => ent.effect = Txt("Temperature") /\ ent.logged = 0
            /\ ("mode" \in DOMAIN ParsedLight /\ mode \notin {Num(0), Num(1), Num(2)}) =>
                    ent.effect = None /\ ent.logged = 1

C20_Witness ==
    /\ call.op = "_parse_light"
    /\ DictGet(call.arg, "mode", None) = Num(3)
    /\ call.pre.effect = Txt("Rainbow")
    /\ ent.effect = None
    /\ ent.logged = 1
    /\ ent.flushed = 1

----------------------------------------------------------------------------
(* Properties of the diffuser sensor handler (SpecDiffuser) *)

\* C5: when the humidity item of a Diffuser.Sensor payload lacks its "value"
\* field, the temperature item of the same payload is still processed and the
\* handler does not end with an error.
C5_DispatchIsolation ==
    ( /\ handled # None
      /\ {"humidity", "temperature"} \subseteq DOMAIN handled.payload
      /\ "value" \notin DOMAIN handled.payload["humidity"]
      /\ DOMAIN handled.payload["temperature"] = {"value"}
      /\ handled.payload["temperature"]["value"] # None ) =>
        /\ handled.raised = None
        /\ "temperature" \in handled.processed
        /\ entities["temperature"].native_value =
                TrueDiv(handled.payload["temperature"]["value"], 10)

\* C13: after the handler ran on a payload carrying key k with a value v, the
\* registry holds the entity of id k, of the class of k, with native_value v / 10,
\* and an entity that was registered already was not constructed again.
C13_CreateOnDemand ==
    handled # None =>
        \A k \in DOMAIN handled.payload :
            ( /\ "value" \in DOMAIN handled.payload[k]
              /\ handled.payload[k]["value"] # None ) =>
                /\ k \in DOMAIN entities
                /\ entities[k].cls = DIFFUSER_SENSOR_CLASS_MAP[k]
                /\ entities[k].native_value = TrueDiv(handled.payload[k]["value"], 10)
                /\ k \in DOMAIN handled.pre => k \notin handled.created

\* C16: on a device that does not advertise Appliance.Control.Diffuser.Sensor
\* digest_init_diffuser registers no handler for it, no handler of it ever runs or
\* raises and no humidity or temperature entity exists; a device that advertises
\* it has the handler registered exactly once.
C16_UnadvertisedNamespaceSkipped ==
    IF NS_APPLIANCE_CONTROL_DIFFUSER_SENSOR \in device.ability
    THEN DictGet(device.polling_strategies, NS_APPLIANCE_CONTROL_DIFFUSER_SENSOR, 0) = 1
    ELSE /\ NS_APPLIANCE_CONTROL_DIFFUSER_SENSOR \notin DOMAIN device.polling_strategies
         /\ entities = EmptyDict
         /\ handled = None

C16_Witness ==
    /\ NS_APPLIANCE_CONTROL_DIFFUSER_SENSOR \notin device.ability
    /\ device.log = Txt("Handler undefined")
    /\ device.polling_strategies = EmptyDict
    /\ entities = EmptyDict

----------------------------------------------------------------------------
(* Properties of the thermostat entity (SpecClimate) *)

\* C9: after set_unavailable every device-derived field the thermostat entity
\* caches is null (the raw payload empty), and the entity flushed exactly when it
\* was available before.
C9_UnavailableClearsAll ==
    climcall.op = "set_unavailable" =>
        /\ \A f \in {"_mts_mode", "_mts_onoff", "_mts_active", "current_temperature",
                     "current_humidity", "current_output_power_state",
                     "target_temperature", "preset_mode", "hvac_mode", "hvac_action"} :
                climate[f] = None
        /\ climate._mts_payload = EmptyDict
        /\ climate.flushed = (IF climcall.pre.available THEN 1 ELSE 0)

\* the helper of climcall applied to the entity it found
HelperCase ==
    LET pre == climcall.pre
        arg == climcall.arg
    IN  CASE climcall.op = "_update_current_temperature" ->
                [ differs  |-> pre.current_temperature # arg,
                  sensor   |-> TRUE,
                  stored   |-> climate.current_temperature = arg,
                  forwarded |-> climate.sensor_current_temperature[1].native_value = arg,
                  fields   |-> {"current_temperature", "sensor_current_temperature"} ]
          [] climcall.op = "_update_output_power_state" ->
                [ differs  |-> pre.current_output_power_state # arg,
                  sensor   |-> pre.sensor_output_power_state # None,
                  stored   |-> climate.current_output_power_state = arg,
                  forwarded |-> /\ climate.sensor_output_power_state # None
                                /\ climate.sensor_output_power_state[1].is_on = arg,
                  fields   |-> {"current_output_power_state", "sensor_output_power_state"} ]
          [] climcall.op = "_update_mode_state" ->
                [ differs  |-> \/ pre.current_mode_state # arg[1]
                               \/ pre.current_mode_state_attr # arg[2],
                  sensor   |-> pre.sensor_mode_state # None,
                  stored   |-> /\ climate.current_mode_state = arg[1]
                               /\ climate.current_mode_state_attr = arg[2],
                  forwarded |-> /\ climate.sensor_mode_state # None
                                /\ climate.sensor_mode_state[1].native_value = arg[1]
                                /\ climate.sensor_mode_state[1].extra_state_attributes = arg[2],
                  fields   |-> {"current_mode_state", "current_mode_state_attr",
                                "sensor_mode_state"} ]

\* C19: _update_current_temperature, _update_output_power_state and
\* _update_mode_state return True exactly when their companion sensor exists and
\* the candidate (for the mode state: the state or the extra attributes) differs
\* from the cached value; exactly then the candidate is cached and the sensor
\* holds it; otherwise, and always without the optional sensor, they return False
\* and the entity caches nothing.
C19_HelpersReportChange ==
    climcall.op \in {"_update_current_temperature", "_update_output_power_state",
                     "_update_mode_state"} =>
        LET c == HelperCase
        IN  /\ climcall.changed = (c.sensor /\ c.differs)
            /\ climcall.changed => c.stored /\ c.forwarded
            /\ ~ climcall.changed => climate = climcall.pre
            /\ ~ c.sensor => ~ climcall.changed /\ climate = climcall.pre
            /\ \A f \in (DOMAIN climate) \ (c.fields \cup {"flushed", "written",
                                                           "schedule_flushed", "preset_mode"}) :
                    climate[f] = climcall.pre[f]

C19_Witness ==
    /\ climcall.op = "_update_mode_state"
    /\ climcall.pre.sensor_mode_state # None
    /\ climcall.pre.current_mode_state = climcall.arg[1]
    /\ climcall.pre.current_mode_state_attr # climcall.arg[2]
    /\ climcall.changed
    /\ climate.current_mode_state_attr = [power |-> Num(1)]
    /\ climate.sensor_mode_state[1].extra_state_attributes = [power |-> Num(1)]

\* C10: every flush of the thermostat entity leaves preset_mode the entry of
\* MTS_MODE_TO_PRESET_MAP for the cached raw mode ("comfort" for mode 1), and
\* None for a raw mode that is no key of the map (mode 9, or no mode).
C10_FlushDerivesPreset ==
    climate.flushed > 0 =>
        /\ climate._mts_mode = Num(0) => climate.preset_mode = Txt("custom")
        /\ climate._mts_mode = Num(1) => climate.preset_mode = Txt("comfort")
        /\ climate._mts_mode \notin {Num(0), Num(1)} => climate.preset_mode = None

C10_Witness ==
    /\ climcall.op = "_parse"
    /\ climcall.pre.preset_mode = Txt("comfort")
    /\ climate.flushed = 1
    /\ climate._mts_mode = Num(9)
    /\ climate.preset_mode = None

----------------------------------------------------------------------------
(* Properties of the entity registry (SpecManager, SpecRegistered) *)

\* the pair (channel, entitykey) is that of an entity registered in m
PairRegistered(m, channel, entitykey) ==
    \E i \in DOMAIN m.entities :
        m.entities[i].channel = channel /\ m.entities[i].entitykey = entitykey

\* C11: no two entities of manager.entities have the same (channel, entitykey),
\* every registered entity has a channel or an entitykey and is stored under its
\* own id; a construction whose pair is registered already, or whose channel and
\* entitykey are both null, raises and leaves the registry as it was.
C11_EntityUniqueness ==
    /\ \A i, j \in DOMAIN manager.entities :
            ( /\ manager.entities[i].channel = manager.entities[j].channel
              /\ manager.entities[i].entitykey = manager.entities[j].entitykey ) => i = j
    /\ \A i \in DOMAIN manager.entities :
            LET e == manager.entities[i]
            IN  /\ e.channel # None \/ e.entitykey # None
                /\ e.id = i
                /\ i = EntityId(e.channel, e.entitykey)
    /\ ( /\ mgrcall.op \in {"__init__", "MtsClimate.__init__"}
         /\ \/ mgrcall.arg.channel = None /\ mgrcall.arg.entitykey = None
            \/ PairRegistered(mgrcall.pre, mgrcall.arg.channel, mgrcall.arg.entitykey) ) =>
            /\ mgrcall.raised = Txt("AssertionError")
            /\ manager = mgrcall.pre

C11_Witness ==
    /\ mgrcall.op = "__init__"
    /\ mgrcall.arg.channel = Num(0) /\ mgrcall.arg.entitykey = Txt("temperature")
    /\ PairRegistered(mgrcall.pre, Num(0), Txt("temperature"))
    /\ mgrcall.raised = Txt("AssertionError")
    /\ Cardinality(DOMAIN manager.entities) = 2

\* C12: once async_shutdown of an entity has run, the entity holds no namespace
\* handler and no handler holds the entity, its id is no key of manager.entities,
\* and the assertions of MerossEntity.__init__ pass again for its
\* (channel, entitykey); the other entities stay registered.
C12_Teardown ==
    mgrcall.op = "async_shutdown" =>
        /\ mgrcall.entity.namespace_handlers = {}
        /\ \A ns \in Namespaces : mgrcall.id \notin manager.namespace_handlers[ns]
        /\ mgrcall.id \notin DOMAIN manager.entities
        /\ mgrcall.entity.manager = None
        /\ MerossEntity__init__asserts(manager, mgrcall.entity.channel,
                                       mgrcall.entity.entitykey)
        /\ DOMAIN manager.entities = (DOMAIN mgrcall.pre.entities) \ {mgrcall.id}

C12_Witness ==
    /\ mgrcall.op = "async_shutdown"
    /\ mgrcall.pre.entities[mgrcall.id].namespace_handlers = Namespaces
    /\ mgrcall.entity.namespace_handlers = {}
    /\ Cardinality(DOMAIN manager.entities) = 1
    /\ \E i \in DOMAIN manager.entities : manager.entities[i].namespace_handlers # {}

\* C17: no operation on a constructed entity (reconcile, set_available,
\* set_unavailable, host attach and detach, commands and their acknowledgment,
\* async_shutdown) changes its channel or its entitykey.
C17_IdentityImmutable ==
    (mgrcall.pre # None /\ mgrcall.op \notin {"__init__", "MtsClimate.__init__"}) =>
        \A i \in DOMAIN mgrcall.pre.entities :
            LET before == mgrcall.pre.entities[i]
                after  == IF i \in DOMAIN manager.entities
                          THEN manager.entities[i] ELSE mgrcall.entity
            IN  /\ i \notin DOMAIN manager.entities =>
                        mgrcall.op = "async_shutdown" /\ mgrcall.id = i
                /\ after.channel = before.channel
                /\ after.entitykey = before.entitykey
                /\ after.id = before.id

C17_Witness ==
    /\ mgrcall.op = "async_shutdown"
    /\ mgrcall.entity.cls = "MerossToggle"
    /\ mgrcall.entity.channel = Num(0)
    /\ mgrcall.entity.entitykey = Txt("temperature")
    /\ mgrcall.entity.is_on = Num(1)
    /\ mgrcall.entity._hass_connected
    /\ ~ mgrcall.entity.available

\* C25: the construction of an entity whose (channel, entitykey), not both null,
\* is the pair of no entity registered with the manager succeeds and registers it.
C25_DistinctPairsCreate ==
    ( /\ mgrcall.op = "__init__"
      /\ mgrcall.arg.channel # None \/ mgrcall.arg.entitykey # None
      /\ ~ PairRegistered(mgrcall.pre, mgrcall.arg.channel, mgrcall.arg.entitykey) ) =>
        /\ mgrcall.raised = None
        /\ PairRegistered(manager, mgrcall.arg.channel, mgrcall.arg.entitykey)
        /\ DOMAIN manager.entities = (DOMAIN mgrcall.pre.entities) \cup {mgrcall.id}
        /\ mgrcall.id \notin DOMAIN mgrcall.pre.entities

----------------------------------------------------------------------------
(* Properties of the emulated thermostat (SpecEmulator) *)

\* the digest mode entry of a channel, the channels a payload names and the
\* items it carries for a channel, in order
ModeOf(d, channel) == d.mode[get_element_by_key(d.mode, "channel", channel)]

WindowOf(d, channel) ==
    d.windowOpened[get_element_by_key(d.windowOpened, "channel", channel)]

Named(payload) == { payload["mode"][i]["channel"] : i \in 1 .. Len(payload["mode"]) }

ItemsOf(payload, channel) == SelectSeq(payload["mode"], LAMBDA p : p["channel"] = channel)

ModesWithTemp == {MTS200_MODE_HEAT, MTS200_MODE_COOL, MTS200_MODE_ECO, MTS200_MODE_CUSTOM}

\* C26: after a SET Thermostat.Mode the digest entry of every channel the payload
\* names has state 1 exactly when its onoff is non-zero and its targetTemp is
\* greater than its currentTemp, state 0 otherwise; the reply is SETACK with an
\* empty payload.
C26_StateFollowsTemperatures ==
    emucall # None =>
        /\ emucall.reply = <<"SETACK", EmptyDict>>
        /\ \A c \in Named(emucall.payload) :
                LET e == ModeOf(digest, c)
                IN  e["state"] =
                        IF e["onoff"] # Num(0) /\ e["targetTemp"][1] > e["currentTemp"][1]
                        THEN Num(1) ELSE Num(0)

C26_Witness ==
    /\ emucall # None
    /\ emucall.payload = [mode |-> <<[channel |-> Num(0), mode |-> MTS200_MODE_HEAT,
                                       onoff |-> Num(0)]>>]
    /\ ModeOf(emucall.pre, Num(0))["state"] = Num(1)
    /\ ModeOf(digest, Num(0))["targetTemp"] = Num(220)
    /\ ModeOf(digest, Num(0))["state"] = Num(0)

\* C27: the fields of the items of a channel are merged into its digest entry (a
\* field other than targetTemp and state holds the value of the last item that
\* carries it, or the value it had); when the resulting mode is heat, cool, eco
\* or custom, targetTemp is the entry's heatTemp, coolTemp, ecoTemp or
\* manualTemp, whatever the payload carried; for another mode it is the
\* targetTemp of the last item when that carries one, and the previous one when
\* the channel has one item without it; the entries of the channels the payload
\* does not name are unchanged.
C27_ModeSetsTarget ==
    emucall # None =>
        \A c \in EmuChannels :
            LET e     == ModeOf(digest, c)
                before == ModeOf(emucall.pre, c)
                items == ItemsOf(emucall.payload, c)
            IN  IF items = <<>> THEN e = before
                ELSE
                LET last == items[Len(items)]
                IN  /\ DOMAIN e = DOMAIN before
                    /\ \A k \in (DOMAIN e) \ {"targetTemp", "state"} :
                            LET carrying == SelectSeq(items, LAMBDA p : k \in DOMAIN p)
                            IN  e[k] = IF carrying = <<>> THEN before[k]
                                       ELSE carrying[Len(carrying)][k]
                    /\ e["mode"] = MTS200_MODE_HEAT => e["targetTemp"] = e["heatTemp"]
                    /\ e["mode"] = MTS200_MODE_COOL => e["targetTemp"] = e["coolTemp"]
                    /\ e["mode"] = MTS200_MODE_ECO => e["targetTemp"] = e["ecoTemp"]
                    /\ e["mode"] = MTS200_MODE_CUSTOM => e["targetTemp"] = e["manualTemp"]
                    /\ e["mode"] \notin ModesWithTemp =>
                            /\ "targetTemp" \in DOMAIN last =>
                                    e["targetTemp"] = last["targetTemp"]
                            /\ (Len(items) = 1 /\ "targetTemp" \notin DOMAIN last) =>
                                    e["targetTemp"] = before["targetTemp"]

C27_Witness ==
    /\ emucall # None
    /\ emucall.payload = [mode |-> <<[channel |-> Num(0), mode |-> MTS200_MODE_ECO,
                                       targetTemp |-> Num(250)]>>]
    /\ ModeOf(emucall.pre, Num(0))["mode"] = MTS200_MODE_AUTO
    /\ ModeOf(digest, Num(0))["targetTemp"] = Num(150)
    /\ ModeOf(digest, Num(1)) = ModeOf(emucall.pre, Num(1))

\* C28: a SET Thermostat.Mode leaves the windowOpened status of a channel as it
\* was when the payload does not name the channel or when the resulting mode of
\* the channel is heat, cool, eco or custom, whatever the other items are.
C28_WindowSwitchedPerChannel ==
    emucall # None =>
        \A c \in EmuChannels :
            ( \/ c \notin Named(emucall.payload)
              \/ ModeOf(digest, c)["mode"] \in ModesWithTemp ) =>
                WindowOf(digest, c) = WindowOf(emucall.pre, c)

====
